---- MODULE Spec2Model ----
(***************************************************************************)
(* A model of opty's direct collocation formulation                        *)
(* (src/opty/direct_collocation.py): the classification of symbols, the    *)
(* layout of the free vector, the constraint evaluator, the pattern of the *)
(* sparse Jacobian, the instance constraints and the bound arrays.         *)
(*                                                                         *)
(* Symbols are named by integers: the order of the integers is the order   *)
(* of the names.  Array indices are 0-based in the source and in the       *)
(* values the model stores; TLA+ sequences are 1-based, so the entry at    *)
(* source index k is element k + 1 of the sequence.                        *)
(***************************************************************************)
EXTENDS Integers, Sequences, FiniteSets, TLC

VARIABLES
    pin,    \* the arguments of a call of ConstraintCollocator._parse_inputs, or
            \* of the constructor where a specification records them
    pout,   \* what the call of _parse_inputs returned
    col,    \* the ConstraintCollocator object: a record of its attributes
    prob,   \* the Problem object: a record of its attributes
    ret     \* the last call of an evaluator: its argument and what it returned

vars == <<pin, pout, col, prob, ret>>

\* ---------------------------------------------------------------- bounds

\* The most states a modelled system has.
MaxStates == 2
\* The most collocation nodes of the lifecycle specification.
MaxNodes == 3
\* Parameters and trajectories are named 1..MaxSym.
MaxSym == 2
\* The most collocation nodes of the specification of the time snapping.
MaxGrid == 5

Syms == 1..MaxSym

NoObject == [cls |-> "none"]
NoCall == [op |-> "none"]

\* ---------------------------------------------------------------- helpers

Min(a, b) == IF a < b THEN a ELSE b
Abs(a) == IF a < 0 THEN -a ELSE a

Range(s) == {s[i] : i \in 1..Len(s)}

\* list.index: the 1-based position of the first occurrence of x in s.
IndexOf(s, x) == CHOOSE i \in 1..Len(s) : s[i] = x /\ \A k \in 1..(i - 1) : s[k] # x

\* list.remove(x): s without the first occurrence of x.
ListRemove(s, x) ==
    LET i == IndexOf(s, x)
    IN  SubSeq(s, 1, i - 1) \o SubSeq(s, i + 1, Len(s))

RECURSIVE Concat(_)
\* The concatenation of a sequence of sequences.
Concat(ss) == IF ss = <<>> THEN <<>> ELSE Head(ss) \o Concat(Tail(ss))

RECURSIVE SumSeq(_)
SumSeq(s) == IF s = <<>> THEN 0 ELSE Head(s) + SumSeq(Tail(s))

\* The sequences without repetition over S of at most k entries.
InjSeqs(S, k) ==
    {s \in UNION {[1..m -> S] : m \in 0..k} : \A i, j \in 1..Len(s) : i # j => s[i] # s[j]}

\* ------------------------------------------------- variable classification

RECURSIVE RemoveExtraneous(_, _, _)
\* for s in known_syms: if s not in all_syms: known_syms.remove(s)
\* The list is changed while the loop walks it: the loop reads index i of the
\* list as it is now, then index i + 1, so the entry that slides into the place
\* of a removed one is never looked at.
RemoveExtraneous(known_syms, all_syms, i) ==
    IF i > Len(known_syms) THEN known_syms
    ELSE IF known_syms[i] \notin all_syms
         THEN RemoveExtraneous(ListRemove(known_syms, known_syms[i]), all_syms, i + 1)
         ELSE RemoveExtraneous(known_syms, all_syms, i + 1)

RECURSIVE sort_sympy(_)
\* seq.sort(key=name): ascending by name.
sort_sympy(seq) ==
    IF seq = {} THEN <<>>
    ELSE LET m == CHOOSE x \in seq : \A y \in seq : x <= y
         IN  <<m>> \o sort_sympy(seq \ {m})

\* A changed _parse_inputs: the known symbols are sorted like the unknown ones.
parse_inputs_mutant(all_syms, known_syms) ==
    LET ks == RemoveExtraneous(known_syms, all_syms, 1)
    IN  IF all_syms = {}
        THEN [known |-> <<>>, num_known |-> 0, unknown |-> <<>>, num_unknown |-> 0]
        ELSE [known |-> sort_sympy(Range(ks)), num_known |-> Len(ks),
              unknown |-> sort_sympy(all_syms \ Range(ks)),
              num_unknown |-> Cardinality(all_syms \ Range(ks))]

\* ConstraintCollocator._parse_inputs(all_syms, known_syms).
_parse_inputs(all_syms, known_syms) ==
    LET ks == RemoveExtraneous(known_syms, all_syms, 1)
    IN  IF all_syms = {}
        THEN [known |-> <<>>, num_known |-> 0, unknown |-> <<>>, num_unknown |-> 0]
        ELSE IF ks # <<>>
             THEN [known |-> ks, num_known |-> Len(ks),
                   unknown |-> sort_sympy(all_syms \ Range(ks)),
                   num_unknown |-> Len(sort_sympy(all_syms \ Range(ks)))]
             ELSE [known |-> <<>>, num_known |-> 0,
                   unknown |-> sort_sympy(all_syms),
                   num_unknown |-> Len(sort_sympy(all_syms))]

\* ConstraintCollocator._sort_parameters: the attributes it sets, from the free
\* symbols of the equations of motion (without the time symbol) and the keys of
\* known_parameter_map.
_sort_parameters(parameters, known_parameter_keys) ==
    LET res == _parse_inputs(parameters, known_parameter_keys)
    IN  [known_parameters |-> res.known,
         num_known_parameters |-> res.num_known,
         unknown_parameters |-> res.unknown,
         num_unknown_parameters |-> res.num_unknown,
         parameters |-> res.known \o res.unknown,
         num_parameters |-> Len(res.known \o res.unknown)]

\* ConstraintCollocator._sort_trajectories: the attributes it sets, from the
\* time varying symbols of the equations of motion that are no state and no
\* derivative of a state, and the keys of known_trajectory_map.
_sort_trajectories(non_states, known_trajectory_keys) ==
    LET res == _parse_inputs(non_states, known_trajectory_keys)
    IN  [known_input_trajectories |-> res.known,
         num_known_input_trajectories |-> res.num_known,
         unknown_input_trajectories |-> res.unknown,
         num_unknown_input_trajectories |-> res.num_unknown,
         input_trajectories |-> res.known \o res.unknown,
         num_input_trajectories |-> Len(res.known \o res.unknown)]

\* The symbols a call of _parse_inputs is given: the names 1..MaxSym + 1, so
\* that a mapping can hold two keys that are in no equation.
ParseSyms == 1..(MaxSym + 1)

ParseInit ==
    /\ pin \in {[all_syms |-> A, known_syms |-> K] :
                    A \in SUBSET ParseSyms, K \in InjSeqs(ParseSyms, MaxSym + 1)}
    /\ pout = NoCall
    /\ col = NoObject
    /\ prob = NoObject
    /\ ret = NoCall

\* One call of the static method on the arguments drawn by ParseInit.
ParseInputs ==
    /\ pout = NoCall
    /\ pout' = _parse_inputs(pin.all_syms, pin.known_syms)
    /\ UNCHANGED <<pin, col, prob, ret>>

\* _sort_parameters on a collocator whose equations hold the parameters
\* pin.all_syms and whose known_parameter_map has the keys pin.known_syms.
SortParameters ==
    /\ col = NoObject
    /\ col' = [cls |-> "parameters"] @@ _sort_parameters(pin.all_syms, pin.known_syms)
    /\ UNCHANGED <<pin, pout, prob, ret>>

\* _sort_trajectories on a collocator whose equations hold the trajectories
\* pin.all_syms and whose known_trajectory_map has the keys pin.known_syms.
SortTrajectories ==
    /\ col = NoObject
    /\ col' = [cls |-> "trajectories"] @@ _sort_trajectories(pin.all_syms, pin.known_syms)
    /\ UNCHANGED <<pin, pout, prob, ret>>

ParseNext == ParseInputs \/ SortParameters \/ SortTrajectories

SpecParse == ParseInit /\ [][ParseNext]_vars

\* C9: _parse_inputs returns as known exactly the keys of the mapping that are
\* in the equations and as unknown exactly the other symbols of the equations:
\* known and unknown are disjoint and together are the symbols of the equations.
C9_KnownExactlyKeysInEquations ==
    pout # NoCall =>
        /\ Range(pout.known) = Range(pin.known_syms) \cap pin.all_syms
        /\ Range(pout.unknown) = pin.all_syms \ Range(pin.known_syms)
        /\ Range(pout.known) \cap Range(pout.unknown) = {}
        /\ Range(pout.known) \cup Range(pout.unknown) = pin.all_syms

\* s is t with some entries left out, the others in the order of t.
IsSubsequenceInOrder(s, t) ==
    /\ Range(s) \subseteq Range(t)
    /\ \A i, j \in 1..Len(s) : i < j => IndexOf(t, s[i]) < IndexOf(t, s[j])

IsAscending(s) == \A i, j \in 1..Len(s) : i < j => s[i] < s[j]

\* C10: the known symbols come in the order of the caller's mapping, the
\* unknown symbols ascending by name, and parameters and input_trajectories
\* are the known symbols followed by the unknown ones.
C10_ClassificationOrder ==
    /\ pout # NoCall =>
        /\ IsSubsequenceInOrder(pout.known, pin.known_syms)
        /\ IsAscending(pout.unknown)
        /\ pout.num_known = Len(pout.known)
        /\ pout.num_unknown = Len(pout.unknown)
    /\ col.cls = "parameters" =>
        /\ IsSubsequenceInOrder(col.known_parameters, pin.known_syms)
        /\ IsAscending(col.unknown_parameters)
        /\ col.parameters = col.known_parameters \o col.unknown_parameters
    /\ col.cls = "trajectories" =>
        /\ IsSubsequenceInOrder(col.known_input_trajectories, pin.known_syms)
        /\ IsAscending(col.unknown_input_trajectories)
        /\ col.input_trajectories =
               col.known_input_trajectories \o col.unknown_input_trajectories

\* C10's case: a mapping whose two keys, both in the equations, come in
\* descending order of name, classified beside an unknown symbol.
C10_Witness ==
    /\ pout # NoCall
    /\ Len(pout.known) >= 2
    /\ pout.known[1] > pout.known[2]
    /\ Len(pout.unknown) >= 1
    /\ col.cls = "parameters"
    /\ col.parameters = pout.known \o pout.unknown

\* ------------------------------------------------------------ construction

\* A state-at-time function of an instance constraint, x_state(time): the
\* state is its 1-based place in state_symbols, the time is in tenths of a
\* second (21 is 2.1).  The node interval is a whole number of seconds.
Atom(state, time) == [state |-> state, time |-> time]

\* The values the modelled callers supply for a known parameter and for a
\* known trajectory: the trajectory named 1 is zero at every node.
KnownParameterValue(key) == key
KnownTrajectoryValue(key, N) == [i \in 1..N |-> (key - 1) * i]

\* np.argmin(np.abs(time_vector - time_value)) with time_vector =
\* np.linspace(0.0, h * (N - 1), num=N): the first node of the least distance.
time_index_mutant(N, h, time_value) ==
    CHOOSE i \in 0..(N - 1) :
        /\ \A k \in 0..(N - 1) : Abs(10 * h * i - time_value) <= Abs(10 * h * k - time_value)
        /\ \A k \in (i + 1)..(N - 1) :
               Abs(10 * h * k - time_value) # Abs(10 * h * i - time_value)

time_index(N, h, time_value) ==
    CHOOSE i \in 0..(N - 1) :
        /\ \A k \in 0..(N - 1) : Abs(10 * h * i - time_value) <= Abs(10 * h * k - time_value)
        /\ \A k \in 0..(i - 1) : Abs(10 * h * k - time_value) # Abs(10 * h * i - time_value)

\* determine_free_index(time_index, state), state_index being 0-based.
determine_free_index(time_idx, state, N) == time_idx + (state - 1) * N

\* ConstraintCollocator._find_closest_free_index: the map from the function
\* atoms of the instance constraints to indices of the free vector.
_find_closest_free_index(atoms, N, h) ==
    [func \in atoms |-> determine_free_index(time_index(N, h, func.time), func.state, N)]

\* ConstraintCollocator._identify_functions_in_instance_constraints.
_identify_functions_in_instance_constraints(cons) == UNION Range(cons)

ValidMethods == {"backward euler", "midpoint"}

\* A changed num_free: the unknown parameters counted once per node.
init_num_free_mutant(num_states, num_unknown_input_trajectories, N, num_unknown_parameters) ==
    (num_states + num_unknown_input_trajectories + num_unknown_parameters) * N

\* self.num_free of ConstraintCollocator.__init__.
init_num_free(num_states, num_unknown_input_trajectories, N, num_unknown_parameters) ==
    (num_states + num_unknown_input_trajectories) * N + num_unknown_parameters

\* ConstraintCollocator.__init__.  a holds the arguments: n the number of state
\* symbols, N, h, the symbols of the equations of motion (eom), the keys of the
\* two known maps, the instance constraints (none: is_none) and the method.
\* The modelled equations of motion are, for state j,
\*     0 = x_j'(t) - (sum of the trajectories of eom) - (sum of its parameters).
Collocator(a) ==
    LET pars  == _sort_parameters(a.eom.pars, a.known_parameter_keys)
        trajs == _sort_trajectories(a.eom.trajs, a.known_trajectory_keys)
        atoms == _identify_functions_in_instance_constraints(a.instance_constraints.cons)
    IN  [cls |-> "ConstraintCollocator",
         eom |-> a.eom,
         num_states |-> a.n,
         num_collocation_nodes |-> a.N,
         node_time_interval |-> a.h,
         known_parameter_map |->
             [k \in Range(a.known_parameter_keys) |-> KnownParameterValue(k)],
         known_trajectory_map |->
             [k \in Range(a.known_trajectory_keys) |-> KnownTrajectoryValue(k, a.N)],
         instance_constraints |-> a.instance_constraints,
         num_constraints |->
             a.n * (a.N - 1) +
             (IF a.instance_constraints.is_none THEN 0
              ELSE Len(a.instance_constraints.cons)),
         num_free |->
             init_num_free(a.n, trajs.num_unknown_input_trajectories, a.N,
                           pars.num_unknown_parameters),
         integration_method |-> a.integration_method,
         discrete_eom |-> a.integration_method,
         instance_constraint_function_atoms |-> atoms,
         instance_constraints_free_index_map |->
             _find_closest_free_index(atoms, a.N, a.h)]
        @@ pars @@ trajs

\* The instance constraints the lifecycle specification draws from, for a
\* system of n states: none, an empty collection, and two constraints, the
\* first on the last state at 2.1 s, the second on the first state at the
\* start and the last state at 1.0 s.
InstanceChoices(n) ==
    {[is_none |-> TRUE, cons |-> <<>>], [is_none |-> FALSE, cons |-> <<>>]}
    \cup (IF n = 0 THEN {}
          ELSE {[is_none |-> FALSE,
                 cons |-> <<{Atom(n, 21)}, {Atom(1, 0), Atom(n, 10)}>>]})

\* The parameters (or trajectories) of the modelled equations are the names
\* 1..k; a known map has at most one key, and the two known maps of one
\* collocator name the same key (a parameter and a trajectory of that name).
KnownKeyChoices == {<<>>} \cup {<<k>> : k \in Syms}
EomChoices == {[pars |-> 1..r, trajs |-> 1..q] : r \in 0..MaxSym, q \in 0..MaxSym}

\* The arguments the lifecycle's constructors are called with, for a system
\* of n states.
ConstructorArgs(n) ==
    {[n |-> n, N |-> N, h |-> h, eom |-> e, known_parameter_keys |-> k,
      known_trajectory_keys |-> k, instance_constraints |-> ic,
      integration_method |-> m] :
        N \in 2..MaxNodes, h \in {1, 2}, e \in EomChoices,
        k \in KnownKeyChoices,
        ic \in InstanceChoices(n), m \in ValidMethods}

\* ------------------------------------------------------ Jacobian pattern

\* The canonical order in which the function atoms of one instance
\* constraint are listed (con.atoms(sym.Function) turned into a list): by
\* state, then by time.
RECURSIVE AtomList(_)
AtomList(funcs) ==
    IF funcs = {} THEN <<>>
    ELSE LET f == CHOOSE x \in funcs : \A y \in funcs :
                      x.state < y.state \/ (x.state = y.state /\ x.time <= y.time)
         IN  <<f>> \o AtomList(funcs \ {f})

\* ConstraintCollocator._instance_constraints_jacobian_indices: the rows and
\* columns of the entries of the instance constraints.
_instance_constraints_jacobian_indices(c) ==
    LET idx_map == c.instance_constraints_free_index_map
        num_eom_constraints == 2 * (c.num_collocation_nodes - 1)
        cons == c.instance_constraints.cons
        indices(i) == [k \in 1..Len(AtomList(cons[i])) |-> idx_map[AtomList(cons[i])[k]]]
        row_idxs(i) == [k \in 1..Len(indices(i)) |-> num_eom_constraints + (i - 1)]
    IN  [rows |-> Concat([i \in 1..Len(cons) |-> row_idxs(i)]),
         cols |-> Concat([i \in 1..Len(cons) |-> indices(i)])]

\* num_partials of jacobian_indices: the entries of one constraint node.
num_partials(c) ==
    LET n == c.num_states
    IN  IF c.integration_method = "backward euler"
        THEN n * (2 * n + c.num_unknown_input_trajectories + c.num_unknown_parameters)
        ELSE n * (2 * n + 2 * c.num_unknown_input_trajectories
                  + c.num_unknown_parameters)

\* A changed row_idxs: the rows of the states one apart instead of N - 1.
jac_row_idxs_at_mutant(c, i) == [j \in 1..c.num_states |-> (j - 1) + i]

\* row_idxs of jacobian_indices at constraint node i (0-based).
jac_row_idxs_at(c, i) ==
    [j \in 1..c.num_states |-> (j - 1) * (c.num_collocation_nodes - 1) + i]

\* A changed col_idxs: under backward Euler the current states are read at
\* node i instead of node i + 1.
jac_col_idxs_at_mutant(c, i) ==
    LET N == c.num_collocation_nodes
        n == c.num_states
        q == c.num_unknown_input_trajectories
        r == c.num_unknown_parameters
    IN  IF c.integration_method = "backward euler"
        THEN [j \in 1..n |-> (j - 1) * N + i]
             \o [j \in 1..n |-> (j - 1) * N + i]
             \o [j \in 1..q |-> n * N + (j - 1) * N + i + 1]
             \o [j \in 1..r |-> (n + q) * N + (j - 1)]
        ELSE [j \in 1..n |-> (j - 1) * N + i]
             \o [j \in 1..n |-> (j - 1) * N + i + 1]
             \o [j \in 1..q |-> n * N + (j - 1) * N + i]
             \o [j \in 1..q |-> n * N + (j - 1) * N + i + 1]
             \o [j \in 1..r |-> (n + q) * N + (j - 1)]

\* col_idxs of jacobian_indices at constraint node i (0-based).
jac_col_idxs_at(c, i) ==
    LET N == c.num_collocation_nodes
        n == c.num_states
        q == c.num_unknown_input_trajectories
        r == c.num_unknown_parameters
    IN  IF c.integration_method = "backward euler"
        THEN [j \in 1..n |-> (j - 1) * N + i + 1]
             \o [j \in 1..n |-> (j - 1) * N + i]
             \o [j \in 1..q |-> n * N + (j - 1) * N + i + 1]
             \o [j \in 1..r |-> (n + q) * N + (j - 1)]
        ELSE [j \in 1..n |-> (j - 1) * N + i]
             \o [j \in 1..n |-> (j - 1) * N + i + 1]
             \o [j \in 1..q |-> n * N + (j - 1) * N + i]
             \o [j \in 1..q |-> n * N + (j - 1) * N + i + 1]
             \o [j \in 1..r |-> (n + q) * N + (j - 1)]

\* A changed np.repeat(a, k): a, k times over.
NpRepeat_mutant(a, k) == [x \in 1..(Len(a) * k) |-> a[((x - 1) % Len(a)) + 1]]

\* np.repeat(a, k): every entry of a, k times in a row.
NpRepeat(a, k) == [x \in 1..(Len(a) * k) |-> a[((x - 1) \div k) + 1]]
\* list(a) * k: a, k times over.
ListTimes(a, k) == [x \in 1..(Len(a) * k) |-> a[((x - 1) % Len(a)) + 1]]

\* ConstraintCollocator.jacobian_indices: the arrays it returns, or the error
\* it raises.  A slice assignment of an array of another length raises
\* ValueError; jac_row_idxs[-0:] is the whole array.
jacobian_indices(c) ==
    LET N == c.num_collocation_nodes
        num_constraint_nodes == N - 1
        ins == IF c.instance_constraints.is_none THEN [rows |-> <<>>, cols |-> <<>>]
               ELSE _instance_constraints_jacobian_indices(c)
        num_non_zero_values == num_constraint_nodes * num_partials(c) + Len(ins.rows)
        rows_at(i) ==
            NpRepeat(jac_row_idxs_at(c, i), Len(jac_col_idxs_at(c, i)))
        cols_at(i) ==
            ListTimes(jac_col_idxs_at(c, i), Len(jac_row_idxs_at(c, i)))
        dyn_rows == Concat([i \in 1..num_constraint_nodes |-> rows_at(i - 1)])
        dyn_cols == Concat([i \in 1..num_constraint_nodes |-> cols_at(i - 1)])
        block_fits ==
            \A i \in 0..(num_constraint_nodes - 1) : Len(rows_at(i)) = num_partials(c)
        tail_fits ==
            \/ c.instance_constraints.is_none
            \/ Len(ins.rows) > 0
            \/ num_non_zero_values = 0
    IN  IF ~block_fits \/ ~tail_fits
        THEN [err |-> "ValueError", rows |-> <<>>, cols |-> <<>>]
        ELSE [err |-> "none", rows |-> dyn_rows \o ins.rows, cols |-> dyn_cols \o ins.cols]

\* ------------------------------------------------------------ evaluators

\* utils.parse_free(free, n, q, N): the states as n rows of N entries, the
\* unknown trajectories (nothing when q = 0, one flat array when q = 1, q
\* rows otherwise) and the unknown parameters.
parse_free(free, n, q, N) ==
    LET row(base, j) == [i \in 1..N |-> free[base + (j - 1) * N + i]]
    IN  [states |-> [j \in 1..n |-> row(0, j)],
         specified |->
             IF q = 0 THEN [ndim |-> 0, data |-> <<>>]
             ELSE IF q = 1 THEN [ndim |-> 1, data |-> row(n * N, 1)]
             ELSE [ndim |-> 2, data |-> [j \in 1..q |-> row(n * N, j)]],
         constants |->
             [ndim |-> 1,
              data |-> [i \in 1..(Len(free) - (n + q) * N) |-> free[(n + q) * N + i]]]]

RECURSIVE MergeFrom(_, _, _, _, _, _)
\* The loop of _merge_fixed_free from entry i of syms on, n free values used.
MergeFrom(syms, fixed, free, typ, i, n) ==
    IF i > Len(syms) THEN <<>>
    ELSE IF syms[i] \in DOMAIN fixed
         THEN <<fixed[syms[i]]>> \o MergeFrom(syms, fixed, free, typ, i + 1, n)
         ELSE IF typ = "traj" /\ free.ndim = 1
              THEN <<free.data>> \o MergeFrom(syms, fixed, free, typ, i + 1, n)
              ELSE <<free.data[n + 1]>> \o MergeFrom(syms, fixed, free, typ, i + 1, n + 1)

\* A changed _merge_fixed_free: the count n of the free values used is never
\* advanced.
merge_fixed_free_mutant(syms, fixed, free, typ) ==
    [i \in 1..Len(syms) |->
        IF syms[i] \in DOMAIN fixed THEN fixed[syms[i]]
        ELSE IF typ = "traj" /\ free.ndim = 1 THEN free.data ELSE free.data[1]]

\* ConstraintCollocator._merge_fixed_free(syms, fixed, free, typ).
_merge_fixed_free(syms, fixed, free, typ) == MergeFrom(syms, fixed, free, typ, 1, 0)

\* row[1:None] and row[None:-1].
SliceFromOne(row) == SubSeq(row, 2, Len(row))
SliceToLast(row) == SubSeq(row, 1, Len(row) - 1)

\* row[current_start:current_stop] and row[adjacent_start:adjacent_stop].
current_slice(c, row) ==
    IF c.integration_method = "backward euler" THEN SliceFromOne(row) ELSE SliceToLast(row)
adjacent_slice(c, row) ==
    IF c.integration_method = "backward euler" THEN SliceToLast(row) ELSE SliceFromOne(row)

\* The discrete symbols: a kind and the place of the state or the name of the
\* trajectory or parameter.
DSym(kind, name) == <<kind, name>>
SymList(kind, names) == [k \in 1..Len(names) |-> DSym(kind, names[k])]
StateNames(c) == [j \in 1..c.num_states |-> j]

\* args of _gen_multi_arg_con_func and of _gen_multi_arg_con_jac_func: the
\* order of the arguments of the generated function.
con_arg_syms(c) ==
    IF c.integration_method = "backward euler"
    THEN SymList("xi", StateNames(c)) \o SymList("xp", StateNames(c))
         \o SymList("si", c.input_trajectories)
         \o SymList("c", c.known_parameters \o c.unknown_parameters)
         \o <<DSym("h", 0)>>
    ELSE SymList("xi", StateNames(c)) \o SymList("xn", StateNames(c))
         \o SymList("si", c.input_trajectories) \o SymList("sn", c.input_trajectories)
         \o SymList("c", c.known_parameters \o c.unknown_parameters)
         \o <<DSym("h", 0)>>

\* args of constraints(state_values, specified_values, constant_values,
\* interval_value): the values handed to the generated function.
\* specified_values is np.array(merged): 2-D when it has a row, else empty.
\* The function is a closure: g is the collocator as it was when the
\* function was generated (current_start, ..., adjacent_stop and the
\* compiled f are variables of the closure), c is the collocator as it is
\* when the function is called (self.integration_method is read then).
con_arg_vals(g, c, state_values, specified_values, constant_values, interval_value) ==
    [j \in 1..Len(state_values) |-> current_slice(g, state_values[j])]
    \o [j \in 1..Len(state_values) |-> adjacent_slice(g, state_values[j])]
    \o (IF Len(specified_values) > 0
        THEN [k \in 1..Len(specified_values) |-> current_slice(g, specified_values[k])]
             \o (IF c.integration_method = "midpoint"
                 THEN [k \in 1..Len(specified_values) |->
                          adjacent_slice(g, specified_values[k])]
                 ELSE <<>>)
        ELSE <<>>)
    \o constant_values
    \o <<interval_value>>

\* The value of discrete_eom[j] (as _discretize_eom derived it from the
\* modelled equations) at node pair i, the symbols read from the argument
\* list by position, as utils.ufuncify_matrix's function does.  The value is
\* the fraction <<numerator, denominator>>.
\*   backward euler: (xi - xp) / h - sum(si) - sum(c)
\*   midpoint:       (xn - xi) / h - sum((si + sn) / 2) - sum(c)
discrete_eom_value(c, syms, vals, j, i) ==
    LET at(sym) == vals[IndexOf(syms, sym)]
        h == at(DSym("h", 0))
        trajs == sort_sympy(c.eom.trajs)
        pars == sort_sympy(c.eom.pars)
        sum_c == SumSeq([k \in 1..Len(pars) |-> at(DSym("c", pars[k]))])
    IN  IF c.discrete_eom = "backward euler"
        THEN <<2 * (at(DSym("xi", j))[i] - at(DSym("xp", j))[i])
               - 2 * h * SumSeq([k \in 1..Len(trajs) |-> at(DSym("si", trajs[k]))[i]])
               - 2 * h * sum_c,
               2 * h>>
        ELSE <<2 * (at(DSym("xn", j))[i] - at(DSym("xi", j))[i])
               - h * SumSeq([k \in 1..Len(trajs) |->
                                at(DSym("si", trajs[k]))[i] + at(DSym("sn", trajs[k]))[i]])
               - 2 * h * sum_c,
               2 * h>>

\* A changed flattening: f(result, *args).flatten(), without the transpose.
flatten_T_mutant(result, rows, columns) ==
    [x \in 1..(rows * columns) |-> result[((x - 1) \div columns) + 1][((x - 1) % columns) + 1]]

\* result.T.flatten() of an array of the given shape: column after column.
flatten_T(result, rows, columns) ==
    [x \in 1..(rows * columns) |-> result[((x - 1) % rows) + 1][((x - 1) \div rows) + 1]]

\* The function constraints(state_values, specified_values, constant_values,
\* interval_value) made by _gen_multi_arg_con_func when the collocator was g,
\* called when it is c.  The compiled f takes exactly its arguments.
multi_arg_con_func(g, c, state_values, specified_values, constant_values, interval_value) ==
    IF Len(state_values) < 2
    THEN [err |-> "ValueError", val |-> <<>>]
    ELSE LET syms == con_arg_syms(g)
             vals == con_arg_vals(g, c, state_values, specified_values, constant_values,
                                  interval_value)
             num_constraints == Len(state_values[1]) - 1
             result == [i \in 1..num_constraints |->
                           [j \in 1..Len(state_values) |->
                               discrete_eom_value(g, syms, vals, j, i)]]
         IN  IF Len(syms) # Len(vals)
             THEN [err |-> "TypeError", val |-> <<>>]
             ELSE [err |-> "none",
                   val |-> flatten_T(result, num_constraints, Len(state_values))]

\* A changed wrt: the known trajectories and parameters are differentiated
\* with respect to as well.
jac_wrt_mutant(c) ==
    IF c.integration_method = "backward euler"
    THEN SymList("xi", StateNames(c)) \o SymList("xp", StateNames(c))
         \o SymList("si", c.input_trajectories)
         \o SymList("c", c.parameters)
    ELSE SymList("xi", StateNames(c)) \o SymList("xn", StateNames(c))
         \o SymList("si", c.input_trajectories)
         \o SymList("sn", c.input_trajectories)
         \o SymList("c", c.parameters)

\* wrt of _gen_multi_arg_con_jac_func: the symbols the partial derivatives
\* are taken with respect to.
jac_wrt(c) ==
    IF c.integration_method = "backward euler"
    THEN SymList("xi", StateNames(c)) \o SymList("xp", StateNames(c))
         \o SymList("si", c.unknown_input_trajectories)
         \o SymList("c", c.unknown_parameters)
    ELSE SymList("xi", StateNames(c)) \o SymList("xn", StateNames(c))
         \o SymList("si", c.unknown_input_trajectories)
         \o SymList("sn", c.unknown_input_trajectories)
         \o SymList("c", c.unknown_parameters)

\* The function constraints_jacobian(...) made by _gen_multi_arg_con_jac_func:
\* eval_partials fills an array of N - 1 rows, one per node pair, each the
\* n x len(wrt) matrix of partial derivatives row after row, and ravel()
\* flattens it node-major.  An entry is named by its node pair, its equation
\* and the symbol it is the derivative with respect to.
\* The function was generated when the collocator was g and is called when
\* it is c; eval_partials takes exactly its arguments.
multi_arg_con_jac_func(g, c, state_values, specified_values, parameter_values, interval) ==
    IF Len(state_values) < 2
    THEN [err |-> "ValueError", val |-> <<>>]
    ELSE LET wrt == jac_wrt(g)
             n == g.num_states
             W == Len(wrt)
             vals == con_arg_vals(g, c, state_values, specified_values, parameter_values,
                                  interval)
             per_node(i) == [x \in 1..(n * W) |->
                                [node |-> i, eq |-> ((x - 1) \div W) + 1,
                                 wrt |-> wrt[((x - 1) % W) + 1]]]
         IN  IF Len(con_arg_syms(g)) # Len(vals)
             THEN [err |-> "TypeError", val |-> <<>>]
             ELSE [err |-> "none",
                   val |-> Concat([i \in 1..(g.num_collocation_nodes - 1) |->
                                      per_node(i - 1)])]

\* The function made by _instance_constraints_func: every instance constraint
\* is modelled as the sum of its function atoms, each replaced by the entry
\* of the free vector it resolves to.
eval_instance_constraints(c, free) ==
    LET cons == c.instance_constraints.cons
        idx_map == c.instance_constraints_free_index_map
        value(i) == SumSeq([k \in 1..Len(AtomList(cons[i])) |->
                               free[idx_map[AtomList(cons[i])[k]] + 1]])
    IN  [i \in 1..Len(cons) |-> <<value(i), 1>>]

\* The function made by _instance_constraints_jacobian_values_func: for every
\* constraint in turn, its partial derivatives with respect to its atoms.
eval_instance_constraints_jacobian_values(c, free) ==
    LET cons == c.instance_constraints.cons
    IN  Concat([i \in 1..Len(cons) |->
                   [k \in 1..Len(AtomList(cons[i])) |->
                       [ins |-> i, wrt |-> AtomList(cons[i])[k]]]])

\* The function constraints(free) made by _wrap_constraint_funcs(func, typ),
\* func generated when the collocator was g, called when it is c.
wrapped_constraints(g, c, typ, free) ==
    LET parsed == parse_free(free, c.num_states, c.num_unknown_input_trajectories,
                             c.num_collocation_nodes)
        all_specified == _merge_fixed_free(c.input_trajectories, c.known_trajectory_map,
                                           parsed.specified, "traj")
        all_constants == _merge_fixed_free(c.parameters, c.known_parameter_map,
                                           parsed.constants, "par")
        eom_con_vals ==
            IF typ = "con"
            THEN multi_arg_con_func(g, c, parsed.states, all_specified, all_constants,
                                    c.node_time_interval)
            ELSE multi_arg_con_jac_func(g, c, parsed.states, all_specified, all_constants,
                                        c.node_time_interval)
        ins_con_vals ==
            IF typ = "con" THEN eval_instance_constraints(c, free)
            ELSE eval_instance_constraints_jacobian_values(c, free)
    IN  IF eom_con_vals.err # "none" THEN eom_con_vals
        ELSE IF ~c.instance_constraints.is_none
             THEN [err |-> "none", val |-> eom_con_vals.val \o ins_con_vals]
             ELSE eom_con_vals

\* The free vectors the evaluators are called with, of length len: the step
\* 0, 1, 1, ... and the squares modulo 5.
FreeVectors(len) ==
    {[i \in 1..len |-> Min(i - 1, 1)], [i \in 1..len |-> (i * i) % 5]}

\* ------------------------------------------------------- Problem, bounds

\* A free symbol a bound is declared on: a state (its 1-based place among the
\* state symbols), a trajectory or a parameter (its name).
Var(kind, name) == <<kind, name>>

\* An entry of a bound array is a * INF + b, kept as <<a, b>>: -INF is
\* <<-1, 0>>, INF is <<1, 0>> and a declared bound v is <<0, v>>.
Unbounded(sign) == <<sign, 0>>
Finite(v) == <<0, v>>

\* start of a state's block, of an unknown trajectory's block, and idx of an
\* unknown parameter in Problem._generate_bound_arrays; i is 0-based.
bound_state_start(N, i) == i * N
bound_traj_start_mutant(N, num_states, i) == i * N
bound_traj_start(N, num_states, i) == N * num_states + i * N
bound_par_idx(N, num_states, num_unknown_input_trajectories, i) ==
    N * (num_states + num_unknown_input_trajectories) + i

\* arr[start:stop] = v * np.ones(N): the entries start..stop - 1 (0-based)
\* that the array has are overwritten.
AssignSlice(arr, start, stop, v) ==
    [x \in 1..Len(arr) |-> IF start <= x - 1 /\ x - 1 < stop THEN v ELSE arr[x]]

\* One turn of the loop over self.bounds.items(): the arrays after the bound
\* of var has been written.
bound_one(c, arrs, var, bounds) ==
    LET N == c.num_collocation_nodes
        isState == var[1] = "state" /\ var[2] \in 1..c.num_states
        isTraj == var[1] = "traj" /\ var[2] \in Range(c.unknown_input_trajectories)
        isPar == var[1] = "par" /\ var[2] \in Range(c.unknown_parameters)
        start == IF isState THEN bound_state_start(N, var[2] - 1)
                 ELSE IF isTraj
                      THEN bound_traj_start(N, c.num_states,
                               IndexOf(c.unknown_input_trajectories, var[2]) - 1)
                      ELSE bound_par_idx(N, c.num_states, c.num_unknown_input_trajectories,
                               IndexOf(c.unknown_parameters, var[2]) - 1)
        stop == IF isState \/ isTraj THEN start + N ELSE start + 1
    IN  IF isState \/ isTraj \/ isPar
        THEN [lb |-> AssignSlice(arrs.lb, start, stop, Finite(bounds[1])),
              ub |-> AssignSlice(arrs.ub, start, stop, Finite(bounds[2]))]
        ELSE arrs

\* The order in which the items of the bounds dictionary are visited.
VarLess(v, w) ==
    \/ v[1] = w[1] /\ v[2] < w[2]
    \/ v[1] = "state" /\ w[1] # "state"
    \/ v[1] = "traj" /\ w[1] = "par"

RECURSIVE bound_loop(_, _, _, _)
bound_loop(c, arrs, todo, bounds) ==
    IF todo = {} THEN arrs
    ELSE LET var == CHOOSE v \in todo : \A w \in todo : v = w \/ VarLess(v, w)
         IN  bound_loop(c, bound_one(c, arrs, var, bounds[var]), todo \ {var}, bounds)

\* Problem._generate_bound_arrays: lower_bound and upper_bound.
_generate_bound_arrays(c, num_free, bounds) ==
    LET lb == [x \in 1..num_free |-> Unbounded(-1)]
        ub == [x \in 1..num_free |-> Unbounded(1)]
    IN  IF bounds.is_none THEN [lb |-> lb, ub |-> ub]
        ELSE bound_loop(c, [lb |-> lb, ub |-> ub], DOMAIN bounds.map, bounds.map)

\* start of the block of state i, of unknown specified i, and the index of
\* unknown constant i in Objective._eval_base_obj_grad; i is 0-based.
obj_grad_state_start(num_nodes, i) == i * num_nodes
obj_grad_specified_start_mutant(num_states, num_nodes, i) ==
    num_states * num_nodes + i
obj_grad_specified_start(num_states, num_nodes, i) ==
    num_states * num_nodes + i * num_nodes
obj_grad_constant_idx(num_states, num_unknown_specifieds, num_nodes, i) ==
    (num_states + num_unknown_specifieds) * num_nodes + i

\* Objective.__init__, as far as the layout goes: the sizes it keeps and
\* the zeroed array _obj_grad_result.
Objective(c) ==
    [num_states |-> c.num_states,
     num_nodes |-> c.num_collocation_nodes,
     num_unknown_specifieds |-> Len(c.unknown_input_trajectories),
     num_unknown_constants |-> Len(c.unknown_parameters),
     obj_grad_result |->
         [x \in 1..(c.num_states * c.num_collocation_nodes
                    + Len(c.unknown_input_trajectories) * c.num_collocation_nodes
                    + Len(c.unknown_parameters)) |-> 0]]

\* Problem.__init__(objective, *args, bounds=...): the attributes it sets, or
\* the error of jacobian_indices, which ends the construction.
Problem(a, bounds) ==
    LET c == Collocator(a)
        jac == jacobian_indices(c)
        arrs == _generate_bound_arrays(c, c.num_free, bounds)
    IN  IF jac.err # "none"
        THEN [cls |-> "failed", error |-> jac.err]
        ELSE [cls |-> "Problem",
              bounds |-> bounds,
              obj |-> Objective(c),
              con_jac_rows |-> jac.rows,
              con_jac_cols |-> jac.cols,
              num_free |-> c.num_free,
              num_constraints |-> c.num_constraints,
              lower_bound |-> arrs.lb,
              upper_bound |-> arrs.ub]

\* The symbols a modelled caller may declare a bound on, known symbols and
\* symbols that are not in the equations among them, and the bound of each.
BoundVars ==
    {Var("state", j) : j \in 1..MaxStates}
    \cup {Var("traj", k) : k \in Syms} \cup {Var("par", k) : k \in Syms}
BoundCode(var) ==
    var[2] + (IF var[1] = "state" THEN 0 ELSE IF var[1] = "traj" THEN 10 ELSE 20)
BoundOf(var) == <<-BoundCode(var), BoundCode(var)>>

\* The bounds arguments: none, a bound on one symbol, a bound on every symbol.
BoundsChoices ==
    {[is_none |-> TRUE, map |-> <<>>]}
    \cup {[is_none |-> FALSE, map |-> [v \in {var} |-> BoundOf(v)]] : var \in BoundVars}
    \cup {[is_none |-> FALSE, map |-> [v \in BoundVars |-> BoundOf(v)]]}

Constructed == col # NoObject /\ col.cls = "ConstraintCollocator"

Init ==
    /\ pin = NoCall
    /\ pout = NoCall
    /\ col = NoObject
    /\ prob = NoObject
    /\ ret = NoCall

\* ConstraintCollocator(...): a collocator of its own, owned by no Problem.
ConstructCollocator ==
    /\ col = NoObject
    /\ prob = NoObject
    /\ \E n \in 0..MaxStates : \E a \in ConstructorArgs(n) : col' = Collocator(a)
    /\ UNCHANGED <<pin, pout, prob, ret>>

\* Problem(objective, ..., bounds=...): the collocator it builds is
\* problem.collocator.
ConstructProblem ==
    /\ col = NoObject
    /\ prob = NoObject
    /\ \E n \in 0..MaxStates : \E a \in ConstructorArgs(n), bounds \in BoundsChoices :
           /\ prob' = Problem(a, bounds)
           /\ col' = Collocator(a)
    /\ UNCHANGED <<pin, pout, ret>>

\* collocator.jacobian_indices().
JacobianIndices ==
    /\ Constructed
    /\ prob = NoObject
    /\ ret' = [op |-> "jacobian_indices", free |-> <<>>] @@ jacobian_indices(col)
    /\ UNCHANGED <<pin, pout, col, prob>>

\* collocator.generate_constraint_function()(free).
Constraints ==
    /\ Constructed
    /\ prob = NoObject
    /\ \E free \in FreeVectors(col.num_free) :
           ret' = [op |-> "constraints", free |-> free]
                  @@ wrapped_constraints(col, col, "con", free)
    /\ UNCHANGED <<pin, pout, col, prob>>

\* collocator.generate_jacobian_function()(free).
Jacobian ==
    /\ Constructed
    /\ prob = NoObject
    /\ \E free \in FreeVectors(col.num_free) :
           ret' = [op |-> "jacobian", free |-> free]
                  @@ wrapped_constraints(col, col, "jac", free)
    /\ UNCHANGED <<pin, pout, col, prob>>

Next ==
    \/ ConstructCollocator
    \/ ConstructProblem
    \/ JacobianIndices
    \/ Constraints
    \/ Jacobian

Spec == Init /\ [][Next]_vars

\* --------------------------------------------- specification: time snapping

\* The times of the state-at-time functions, in tenths of a second: from
\* half a second before the grid of the widest interval to half a second
\* after it.
SnapTimes == (-5)..(20 * (MaxGrid - 1) + 5)

\* Collocators of n states with one instance constraint on one state at one
\* time.
SnapArgs(n) ==
    {[n |-> n, N |-> N, h |-> h, eom |-> [pars |-> {}, trajs |-> {}],
      known_parameter_keys |-> <<>>, known_trajectory_keys |-> <<>>,
      instance_constraints |-> [is_none |-> FALSE, cons |-> <<{Atom(state, t)}>>],
      integration_method |-> "backward euler"] :
        N \in 2..MaxGrid, h \in {1, 2}, state \in 1..n, t \in SnapTimes}

\* ConstraintCollocator(..., instance_constraints=[x_state(t)]).
ConstructWithInstanceConstraint ==
    /\ col = NoObject
    /\ \E n \in 1..MaxStates : \E a \in SnapArgs(n) : col' = Collocator(a)
    /\ UNCHANGED <<pin, pout, prob, ret>>

SnapNext == ConstructWithInstanceConstraint

SpecSnap == Init /\ [][SnapNext]_vars

\* ------------------------------------- specification: the constructor's checks

\* The attributes __init__ sets before it calls a method (lines 377-399).
\* a.known_trajectory_lens gives, for every key of known_trajectory_map, the
\* length of the array the caller supplied.
init_attributes(a) ==
    [eom |-> a.eom,
     num_states |-> a.n,
     num_collocation_nodes |-> a.N,
     node_time_interval |-> a.h,
     known_parameter_map |->
         [k \in Range(a.known_parameter_keys) |-> KnownParameterValue(k)],
     known_trajectory_map |->
         [k \in Range(a.known_trajectory_keys) |->
             KnownTrajectoryValue(k, a.known_trajectory_lens[k])],
     instance_constraints |-> a.instance_constraints,
     num_constraints |-> a.n * (a.N - 1)]

\* An exception leaves __init__: no object is returned.  The record keeps the
\* exception, the method that raised it and the attributes set until then.
Raised(error, raised_in, attributes) ==
    [cls |-> "failed", error |-> error, raised_in |-> raised_in] @@ attributes

\* A changed check: only arrays shorter than N are refused.
check_known_trajectories_mutant(known_trajectory_map, N) ==
    IF \E k \in DOMAIN known_trajectory_map : Len(known_trajectory_map[k]) < N
    THEN "ValueError" ELSE "none"

\* ConstraintCollocator._check_known_trajectories: the exception it raises.
_check_known_trajectories(known_trajectory_map, N) ==
    IF \E k \in DOMAIN known_trajectory_map : Len(known_trajectory_map[k]) # N
    THEN "ValueError" ELSE "none"

\* A changed setter: every name is accepted.
set_integration_method_mutant(method) ==
    [err |-> "none", integration_method |-> method, discrete_eom |-> method]

\* A changed setter: _discretize_eom always takes its backward Euler branch.
set_integration_method_stale(method) ==
    IF method \notin ValidMethods
    THEN [err |-> "ValueError", msg_method |-> method]
    ELSE [err |-> "none", integration_method |-> method, discrete_eom |-> "backward euler"]

\* The setter of integration_method: the exception it raises, the message
\* naming the method, or the attributes it sets (the discrete symbols and
\* discrete_eom stand together as discrete_eom, named by the method whose
\* discretization they are).
set_integration_method(method) ==
    IF method \notin ValidMethods
    THEN [err |-> "ValueError", msg_method |-> method]
    ELSE [err |-> "none", integration_method |-> method, discrete_eom |-> method]

\* The exception of _find_closest_free_index: state_symbols.index raises
\* ValueError for a function that is no state symbol, np.argmin raises
\* ValueError on the empty time vector of N = 0.
find_closest_free_index_error(atoms, n, N) ==
    IF atoms # {} /\ (N = 0 \/ \E f \in atoms : f.state \notin 1..n)
    THEN "ValueError" ELSE "none"

\* ConstraintCollocator.__init__ with its checks: the object, or the
\* exception that ends the construction.
ConstraintCollocator_init(a) ==
    LET s0 == init_attributes(a)
        s1 == s0 @@ _sort_parameters(a.eom.pars, a.known_parameter_keys)
        trajs == _sort_trajectories(a.eom.trajs, a.known_trajectory_keys)
        s2 == s1 @@ trajs
                 @@ [num_free |-> init_num_free(a.n, trajs.num_unknown_input_trajectories,
                                                a.N, s1.num_unknown_parameters)]
        method == set_integration_method(a.integration_method)
        s3 == [integration_method |-> a.integration_method,
               discrete_eom |-> a.integration_method] @@ s2
        atoms == _identify_functions_in_instance_constraints(a.instance_constraints.cons)
        s4 == [num_constraints |-> s3.num_constraints + Len(a.instance_constraints.cons),
               instance_constraint_function_atoms |-> atoms] @@ s3
    IN  IF _check_known_trajectories(s0.known_trajectory_map, a.N) # "none"
        THEN Raised("ValueError", "_check_known_trajectories", s1)
        ELSE IF method.err # "none"
             THEN Raised(method.err, "integration_method", s2)
             ELSE IF ~a.instance_constraints.is_none
                     /\ find_closest_free_index_error(atoms, a.n, a.N) # "none"
                  THEN Raised("ValueError", "_find_closest_free_index", s4)
                  ELSE Collocator(a)

\* The function wrapped(free) made by _instance_constraints_func, for
\* constraints that also hold parameter symbols (con_pars[i] are those of
\* constraint i, each added to the sum): the lambdified function takes the
\* free vector and the known parameters, so any other symbol is a name that
\* is not defined when the function body runs.
instance_constraints_func_wrapped(c, free) ==
    LET cons == c.instance_constraints.cons
        con_pars == c.instance_constraints.con_pars
        known == DOMAIN c.known_parameter_map
        pars(i) == sort_sympy(con_pars[i])
        value(i) == eval_instance_constraints(c, free)[i][1]
                    + SumSeq([k \in 1..Len(pars(i)) |-> c.known_parameter_map[pars(i)[k]]])
    IN  IF \E i \in 1..Len(cons) : ~(con_pars[i] \subseteq known)
        THEN [err |-> "NameError", val |-> <<>>]
        ELSE [err |-> "none", val |-> [i \in 1..Len(cons) |-> <<value(i), 1>>]]

\* A method name that is none of the two the setter accepts.
InvalidMethod == "runge kutta"

\* The instance constraints of the constructor's callers, for n states: none;
\* x1(1.0); x1(0.0) + f(1.0) with f a time-varying function that is no
\* state; x1(1.0) + p with p the parameter named 1.
InitInstanceChoices(n) ==
    {[is_none |-> TRUE, cons |-> <<>>, con_pars |-> <<>>],
     [is_none |-> FALSE, cons |-> <<{Atom(1, 10)}>>, con_pars |-> <<{}>>],
     [is_none |-> FALSE, cons |-> <<{Atom(1, 0), Atom(n + 1, 10)}>>, con_pars |-> <<{}>>],
     [is_none |-> FALSE, cons |-> <<{Atom(1, 10)}>>, con_pars |-> <<{1}>>]}

\* The known trajectory maps of the constructor's callers: no key, one key,
\* or the keys 1 and 2, each with an array of N or of N + 1 entries.
InitTrajectoryChoices(N) ==
    UNION {{[keys |-> ks, lens |-> ls] : ls \in [Range(ks) -> {N, N + 1}]}
           : ks \in KnownKeyChoices \cup {<<1, 2>>}}

\* The arguments of the constructor's callers for n states and N nodes (any N
\* from 0 on): a valid or an invalid method name, equations with the
\* parameter named 1, known or not.
InitArgs(n, N) ==
    {[n |-> n, N |-> N, h |-> 1,
      eom |-> [pars |-> {1}, trajs |-> 1..q],
      known_parameter_keys |-> kp,
      known_trajectory_keys |-> kt.keys,
      known_trajectory_lens |-> [k \in Range(kt.keys) |-> kt.lens[k]],
      instance_constraints |-> ic,
      integration_method |-> m] :
        q \in 0..MaxSym, kp \in {<<>>, <<1>>},
        kt \in InitTrajectoryChoices(N), ic \in InitInstanceChoices(n),
        m \in ValidMethods \cup {InvalidMethod}}

\* ConstraintCollocator(...) called with the arguments a.
CallConstructor ==
    /\ col = NoObject
    /\ \E n \in 1..MaxStates, N \in 0..MaxNodes : \E a \in InitArgs(n, N) :
           /\ pin' = a
           /\ col' = ConstraintCollocator_init(a)
    /\ UNCHANGED <<pout, prob, ret>>

\* collocator.eval_instance_constraints(free) on a constructed collocator
\* with instance constraints.
EvalInstanceConstraints ==
    /\ Constructed
    /\ ~col.instance_constraints.is_none
    /\ \E free \in FreeVectors(col.num_free) :
           ret' = [op |-> "eval_instance_constraints", free |-> free]
                  @@ instance_constraints_func_wrapped(col, free)
    /\ UNCHANGED <<pin, pout, col, prob>>

InitNext == CallConstructor \/ EvalInstanceConstraints

SpecInit == Init /\ [][InitNext]_vars

\* --------------------------- specification: the setter of integration_method

\* What the functions made by _gen_multi_arg_con_func and by
\* _gen_multi_arg_con_jac_func keep of the collocator c that made them: the
\* slice limits and the argument list chosen by c's method, and the function
\* compiled from c's discrete_eom.
Closure(c) == [integration_method |-> c.integration_method, discrete_eom |-> c.discrete_eom]

\* The collocator c as it was when the closure f was made: only the setter
\* changes an attribute after the construction.
AsGenerated(c, f) ==
    [c EXCEPT !.integration_method = f.integration_method, !.discrete_eom = f.discrete_eom]

\* The collocators the setter is followed on: two states, equations without
\* or with one (unknown) trajectory, no instance constraints.
StencilArgs ==
    {[n |-> 2, N |-> N, h |-> 1, eom |-> [pars |-> {}, trajs |-> 1..q],
      known_parameter_keys |-> <<>>, known_trajectory_keys |-> <<>>,
      instance_constraints |-> [is_none |-> TRUE, cons |-> <<>>],
      integration_method |-> m] :
        N \in 2..MaxNodes, q \in 0..1, m \in ValidMethods}

\* ConstraintCollocator(...) with the arguments a, which pin records.
ConstructForStencil ==
    /\ col = NoObject
    /\ \E a \in StencilArgs :
           /\ pin' = a
           /\ col' = Collocator(a)
    /\ UNCHANGED <<pout, prob, ret>>

\* collocator.generate_constraint_function(): self._multi_arg_con_func is
\* set and the wrapped function returned.
GenerateConstraintFunction ==
    /\ Constructed
    /\ col' = [f \in {"_multi_arg_con_func"} |-> Closure(col)] @@ col
    /\ ret' = [op |-> "generate_constraint_function"]
    /\ UNCHANGED <<pin, pout, prob>>

\* collocator.generate_jacobian_function().
GenerateJacobianFunction ==
    /\ Constructed
    /\ col' = [f \in {"_multi_arg_con_jac_func"} |-> Closure(col)] @@ col
    /\ ret' = [op |-> "generate_jacobian_function"]
    /\ UNCHANGED <<pin, pout, prob>>

\* collocator.integration_method = method.
SetIntegrationMethod ==
    /\ Constructed
    /\ \E method \in ValidMethods \cup {InvalidMethod} :
           LET r == set_integration_method(method)
           IN  /\ ret' = [op |-> "set_integration_method", method |-> method, err |-> r.err]
               /\ col' = IF r.err # "none" THEN col
                         ELSE [col EXCEPT !.integration_method = r.integration_method,
                                          !.discrete_eom = r.discrete_eom]
    /\ UNCHANGED <<pin, pout, prob>>

\* A call of the function generate_constraint_function() returned last.
CallConstraintFunction ==
    /\ Constructed
    /\ "_multi_arg_con_func" \in DOMAIN col
    /\ \E free \in FreeVectors(col.num_free) :
           ret' = [op |-> "constraints", free |-> free]
                  @@ wrapped_constraints(AsGenerated(col, col._multi_arg_con_func), col,
                                         "con", free)
    /\ UNCHANGED <<pin, pout, col, prob>>

\* A call of the function generate_jacobian_function() returned last.
CallJacobianFunction ==
    /\ Constructed
    /\ "_multi_arg_con_jac_func" \in DOMAIN col
    /\ \E free \in FreeVectors(col.num_free) :
           ret' = [op |-> "jacobian", free |-> free]
                  @@ wrapped_constraints(AsGenerated(col, col._multi_arg_con_jac_func), col,
                                         "jac", free)
    /\ UNCHANGED <<pin, pout, col, prob>>

StencilNext ==
    \/ ConstructForStencil
    \/ GenerateConstraintFunction
    \/ GenerateJacobianFunction
    \/ SetIntegrationMethod
    \/ CallConstraintFunction
    \/ CallJacobianFunction
    \/ JacobianIndices

SpecStencil == Init /\ [][StencilNext]_vars

\* ------------------------------------- specification: parse and reassemble

\* Objective._generate_args(free), as far as the free vector goes: the
\* blocks of parse_free, a single free trajectory wrapped into a 2-D array
\* (np.array([specifieds])); with no free trajectory there is nothing to wrap.
_generate_args(free, num_states, num_unknown_specifieds, num_nodes) ==
    LET parsed == parse_free(free, num_states, num_unknown_specifieds, num_nodes)
    IN  [states |-> parsed.states,
         specifieds |-> IF parsed.specified.ndim = 0 THEN <<>>
                        ELSE IF parsed.specified.ndim = 1 THEN <<parsed.specified.data>>
                        ELSE parsed.specified.data,
         constants |-> parsed.constants.data]

\* A changed assignment: arr[start:start + len(values)] += values.
AssignValues_mutant(arr, start, values) ==
    [x \in 1..Len(arr) |->
        IF start <= x - 1 /\ x - 1 < start + Len(values)
        THEN arr[x] + values[x - start] ELSE arr[x]]

\* arr[start:start + len(values)] = values.
AssignValues(arr, start, values) ==
    [x \in 1..Len(arr) |->
        IF start <= x - 1 /\ x - 1 < start + Len(values) THEN values[x - start] ELSE arr[x]]

RECURSIVE obj_grad_write_states(_, _, _, _)
\* for i, state in enumerate(self.states): the turns from i on.
obj_grad_write_states(o, result, partials, i) ==
    IF i >= o.num_states THEN result
    ELSE obj_grad_write_states(
             o, AssignValues(result, obj_grad_state_start(o.num_nodes, i), partials[i + 1]),
             partials, i + 1)

RECURSIVE obj_grad_write_specifieds(_, _, _, _)
\* for i, spec in enumerate(self.unknown_specifieds): the turns from i on.
obj_grad_write_specifieds(o, result, partials, i) ==
    IF i >= o.num_unknown_specifieds THEN result
    ELSE obj_grad_write_specifieds(
             o, AssignValues(result,
                             obj_grad_specified_start(o.num_states, o.num_nodes, i),
                             partials[o.num_states + i + 1]),
             partials, i + 1)

\* A changed index of a constant: the block of the free trajectories is
\* taken to be one entry per trajectory.
obj_grad_constant_write_mutant(o, result, partials, i) ==
    AssignValues(result, o.num_states * o.num_nodes + o.num_unknown_specifieds + i,
                 <<partials[o.num_states + o.num_unknown_specifieds + i + 1]>>)

\* self._obj_grad_result[base + i] = partials[partial_base + i].
obj_grad_constant_write(o, result, partials, i) ==
    AssignValues(result,
                 obj_grad_constant_idx(o.num_states, o.num_unknown_specifieds, o.num_nodes, i),
                 <<partials[o.num_states + o.num_unknown_specifieds + i + 1]>>)

RECURSIVE obj_grad_write_constants(_, _, _, _)
\* for i, con in enumerate(self.unknown_constants): the turns from i on.
obj_grad_write_constants(o, result, partials, i) ==
    IF i >= o.num_unknown_constants THEN result
    ELSE obj_grad_write_constants(o, obj_grad_constant_write(o, result, partials, i),
                                  partials, i + 1)

\* Objective._eval_base_obj_grad, partials being what _base_obj_grad_func
\* returned (a row per state and per free trajectory, a number per free
\* constant): self._obj_grad_result after the three loops, which is what the
\* method returns.
_eval_base_obj_grad(o, partials) ==
    obj_grad_write_constants(
        o, obj_grad_write_specifieds(
               o, obj_grad_write_states(o, o.obj_grad_result, partials, 0), partials, 0),
        partials, 0)

\* The free vectors that are parsed and reassembled, of length len: the
\* ramp 1, 2, 3, ..., whose entries all differ, and the squares modulo 5.
RoundTripVectors(len) == {[i \in 1..len |-> i], [i \in 1..len |-> (i * i) % 5]}

\* The sizes n, q, N, r and a free vector of length n * N + q * N + r.
RoundTripInit ==
    /\ pin \in UNION {
           {[n |-> n, q |-> q, N |-> N, r |-> r, free |-> free] :
                free \in RoundTripVectors(n * N + q * N + r)}
           : n \in 0..MaxStates, q \in 0..MaxSym, N \in 1..MaxNodes, r \in 0..MaxSym}
    /\ pout = NoCall
    /\ col = NoObject
    /\ prob = NoObject
    /\ ret = NoCall

\* The Objective of a problem of the sizes of pin.
RoundTripObjective ==
    Objective([num_states |-> pin.n, num_collocation_nodes |-> pin.N,
               unknown_input_trajectories |-> [k \in 1..pin.q |-> k],
               unknown_parameters |-> [k \in 1..pin.r |-> k]])

\* objective._generate_args(free).
GenerateArgs ==
    /\ pout = NoCall
    /\ pout' = [op |-> "_generate_args"] @@ _generate_args(pin.free, pin.n, pin.q, pin.N)
    /\ UNCHANGED <<pin, col, prob, ret>>

\* objective._eval_base_obj_grad with the blocks of _generate_args as the
\* partials: the reassembly of what was parsed.
Reassemble ==
    /\ pout # NoCall
    /\ ret = NoCall
    /\ ret' = [op |-> "_eval_base_obj_grad",
               val |-> _eval_base_obj_grad(RoundTripObjective,
                                           pout.states \o pout.specifieds \o pout.constants)]
    /\ UNCHANGED <<pin, pout, col, prob>>

RoundTripNext == GenerateArgs \/ Reassemble

SpecRoundTrip == RoundTripInit /\ [][RoundTripNext]_vars

\* ------------------------------ specification: the evaluators of a Problem

\* The modelled objective is the sum of the squares of the free symbols.
\* _base_obj_func on the arguments of _generate_args: its value.
base_obj_func(args) ==
    LET sq(row) == SumSeq([i \in 1..Len(row) |-> row[i] * row[i]])
    IN  SumSeq([j \in 1..Len(args.states) |-> sq(args.states[j])])
        + SumSeq([j \in 1..Len(args.specifieds) |-> sq(args.specifieds[j])])
        + sq(args.constants)

\* _base_obj_grad_func on the arguments of _generate_args: the partial
\* derivatives with respect to the free symbols, a row per state and per
\* free trajectory and a number per free constant.
base_obj_grad_func(args) ==
    LET twice(row) == [i \in 1..Len(row) |-> 2 * row[i]]
    IN  [j \in 1..Len(args.states) |-> twice(args.states[j])]
        \o [j \in 1..Len(args.specifieds) |-> twice(args.specifieds[j])]
        \o twice(args.constants)

\* Problem.jacobianstructure(): the arrays stored by the constructor.
jacobianstructure_mutant(p) == [rows |-> p.con_jac_cols, cols |-> p.con_jac_rows]
jacobianstructure(p) == [rows |-> p.con_jac_rows, cols |-> p.con_jac_cols]

\* The problems whose evaluators are called: two states, the trajectory 1
\* where q = 1, the parameters 1 and 2, the names 1 known or not, without
\* instance constraints or with one.
CallArgs ==
    {[n |-> 2, N |-> N, h |-> h, eom |-> [pars |-> 1..2, trajs |-> 1..q],
      known_parameter_keys |-> k, known_trajectory_keys |-> k,
      instance_constraints |-> ic, integration_method |-> m] :
        N \in 2..MaxNodes, h \in {1, 2}, q \in 0..1, k \in {<<>>, <<1>>},
        ic \in {[is_none |-> TRUE, cons |-> <<>>],
                [is_none |-> FALSE, cons |-> <<{Atom(1, 0), Atom(2, 10)}>>]},
        m \in ValidMethods}

\* Problem(objective, ...) with the arguments a, which pin records: the
\* constructor generates both functions of its collocator.
ConstructProblemForCalls ==
    /\ col = NoObject
    /\ prob = NoObject
    /\ \E a \in CallArgs :
           /\ pin' = a
           /\ prob' = Problem(a, [is_none |-> TRUE, map |-> <<>>])
           /\ col' = [f \in {"_multi_arg_con_func", "_multi_arg_con_jac_func"} |->
                         Closure(Collocator(a))] @@ Collocator(a)
    /\ UNCHANGED <<pout, ret>>

\* problem.objective(free).
ProblemObjective ==
    /\ prob.cls = "Problem"
    /\ \E free \in FreeVectors(prob.num_free) :
           ret' = [op |-> "objective", free |-> free, err |-> "none",
                   val |-> base_obj_func(
                               _generate_args(free, prob.obj.num_states,
                                              prob.obj.num_unknown_specifieds,
                                              prob.obj.num_nodes))]
    /\ UNCHANGED <<pin, pout, col, prob>>

\* problem.gradient(free): the array _obj_grad_result is written and returned.
\* What is returned is that array itself, not a copy of it (line 271): ret
\* shows its contents at the return, and a caller who keeps the result (keep)
\* holds in pout the array, named by the attribute of the objective it is.
ProblemGradient ==
    /\ prob.cls = "Problem"
    /\ \E free \in FreeVectors(prob.num_free), keep \in BOOLEAN :
           LET result == _eval_base_obj_grad(
                             prob.obj,
                             base_obj_grad_func(
                                 _generate_args(free, prob.obj.num_states,
                                                prob.obj.num_unknown_specifieds,
                                                prob.obj.num_nodes)))
           IN  /\ prob' = [prob EXCEPT !.obj.obj_grad_result = result]
               /\ ret' = [op |-> "gradient", free |-> free, err |-> "none", val |-> result]
               /\ pout' = IF keep
                          THEN [op |-> "gradient", free |-> free, array |-> "obj_grad_result"]
                          ELSE pout
    /\ UNCHANGED <<pin, col>>

\* problem.constraints(free).
ProblemConstraints ==
    /\ prob.cls = "Problem"
    /\ \E free \in FreeVectors(prob.num_free) :
           ret' = [op |-> "constraints", free |-> free]
                  @@ wrapped_constraints(AsGenerated(col, col._multi_arg_con_func), col,
                                         "con", free)
    /\ UNCHANGED <<pin, pout, col, prob>>

\* problem.jacobian(free).
ProblemJacobian ==
    /\ prob.cls = "Problem"
    /\ \E free \in FreeVectors(prob.num_free) :
           ret' = [op |-> "jacobian", free |-> free]
                  @@ wrapped_constraints(AsGenerated(col, col._multi_arg_con_jac_func), col,
                                         "jac", free)
    /\ UNCHANGED <<pin, pout, col, prob>>

\* problem.jacobianstructure().
ProblemJacobianStructure ==
    /\ prob.cls = "Problem"
    /\ ret' = [op |-> "jacobianstructure", free |-> <<>>, err |-> "none"]
              @@ jacobianstructure(prob)
    /\ UNCHANGED <<pin, pout, col, prob>>

\* problem.collocator.jacobian_indices().
CollocatorJacobianIndices ==
    /\ prob.cls = "Problem"
    /\ ret' = [op |-> "jacobian_indices", free |-> <<>>] @@ jacobian_indices(col)
    /\ UNCHANGED <<pin, pout, col, prob>>

CallsNext ==
    \/ ConstructProblemForCalls
    \/ ProblemObjective
    \/ ProblemGradient
    \/ ProblemConstraints
    \/ ProblemJacobian
    \/ ProblemJacobianStructure
    \/ CollocatorJacobianIndices

SpecCalls == Init /\ [][CallsNext]_vars

\* --------------------------------------- specification: the Jacobian pattern

\* The instance constraints the pattern specification draws from, for a
\* system of n states: none, an empty collection, one constraint that
\* references no function (every statement of __init__ that is in the source
\* accepts it), one constraint on one function, and two constraints of one
\* and of two functions.
PatternInstanceChoices(n) ==
    {[is_none |-> TRUE, cons |-> <<>>],
     [is_none |-> FALSE, cons |-> <<>>],
     [is_none |-> FALSE, cons |-> <<{}>>]}
    \cup (IF n = 0 THEN {}
          ELSE {[is_none |-> FALSE, cons |-> <<{Atom(1, 0)}>>],
                [is_none |-> FALSE, cons |-> <<{Atom(n, 10)}, {Atom(1, 0), Atom(n, 10)}>>]})

\* The collocators of n states whose pattern is taken: every number of
\* trajectories and of parameters, one of each possibly known, both methods.
PatternArgs(n) ==
    {[n |-> n, N |-> N, h |-> 1, eom |-> e, known_parameter_keys |-> k,
      known_trajectory_keys |-> k, instance_constraints |-> ic,
      integration_method |-> m] :
        N \in 2..MaxNodes, e \in EomChoices, k \in {<<>>, <<1>>},
        ic \in PatternInstanceChoices(n), m \in ValidMethods}

\* ConstraintCollocator(...): the arguments are kept in pin.
ConstructForPattern ==
    /\ col = NoObject
    /\ \E n \in 0..MaxStates : \E a \in PatternArgs(n) :
           /\ pin' = a
           /\ col' = Collocator(a)
    /\ UNCHANGED <<pout, prob, ret>>

PatternNext ==
    \/ ConstructForPattern
    \/ JacobianIndices
    \/ Jacobian

SpecPattern == Init /\ [][PatternNext]_vars

\* ------------------------------- specification: merging fixed and free values

\* The arguments _merge_fixed_free is called with: syms, the known symbols
\* followed by the unknown ones; fixed, the known map, which may hold a key
\* that is no symbol of syms; free, the block parse_free cut from a free
\* vector (for typ "traj" nothing, one flat array or one row per unknown
\* trajectory; for typ "par" the flat array of the unknown parameters).
\* A known trajectory k is 10k + 1, 10k + 2, ... and a known parameter k is
\* 10k.
MergeSyms ==
    {ku \in InjSeqs(Syms, MaxSym) \X InjSeqs(Syms, MaxSym) : Range(ku[1]) \cap Range(ku[2]) = {}}

MergeArgs(typ) ==
    UNION {
        {[typ |-> typ, syms |-> ku[1] \o ku[2], N |-> N,
          fixed |-> [k \in keys |-> IF typ = "traj" THEN [i \in 1..N |-> 10 * k + i]
                                    ELSE 10 * k],
          free |-> IF typ = "traj"
                   THEN parse_free(v, 0, Len(ku[2]), N).specified
                   ELSE parse_free(v, 0, 0, N).constants] :
            keys \in {Range(ku[1]), Syms \ Range(ku[2])},
            v \in RoundTripVectors(IF typ = "traj" THEN Len(ku[2]) * N ELSE Len(ku[2]))}
        : ku \in MergeSyms, N \in 1..MaxNodes}

MergeInit ==
    /\ \E typ \in {"traj", "par"} : pin \in MergeArgs(typ)
    /\ pout = NoCall
    /\ col = NoObject
    /\ prob = NoObject
    /\ ret = NoCall

\* self._merge_fixed_free(syms, fixed, free, typ).
MergeFixedFree ==
    /\ ret = NoCall
    /\ ret' = [op |-> "_merge_fixed_free",
               val |-> _merge_fixed_free(pin.syms, pin.fixed, pin.free, pin.typ)]
    /\ UNCHANGED <<pin, pout, col, prob>>

MergeNext == MergeFixedFree

SpecMerge == MergeInit /\ [][MergeNext]_vars

\* ------------------------------------------------------------------ claims

\* The counts the claims speak of, for the constructed collocator.
Cn == col.num_states
CN == col.num_collocation_nodes
Cq == Len(col.unknown_input_trajectories)
Cr == Len(col.unknown_parameters)
Ck == IF col.instance_constraints.is_none THEN 0 ELSE Len(col.instance_constraints.cons)

\* C1: for both methods and every n, q, r, N, the Jacobian-value function
\* returns, without raising, an array as long as the row array and as the
\* column array of jacobian_indices() (collocators without instance
\* constraints, which the claim does not speak of).
C1_JacobianShapeAgreement ==
    (Constructed /\ col.instance_constraints.is_none /\ ret.op = "jacobian") =>
        /\ ret.err = "none"
        /\ jacobian_indices(col).err = "none"
        /\ Len(ret.val) = Len(jacobian_indices(col).rows)
        /\ Len(ret.val) = Len(jacobian_indices(col).cols)

\* The system of C2: one state, x' = u, u known and zero, backward Euler,
\* N = 3, h = 1.
C2_System ==
    /\ Constructed
    /\ Cn = 1 /\ CN = 3 /\ col.node_time_interval = 1
    /\ col.eom = [pars |-> {}, trajs |-> {1}]
    /\ col.known_input_trajectories = <<1>>
    /\ col.instance_constraints.is_none
    /\ col.integration_method = "backward euler"

\* C2: on that system the constraint function maps the free vector [0, 1, 1]
\* to [1, 0], and a system of a single state is evaluated and yields N - 1
\* residuals.
C2_SingleStateScenario ==
    /\ (C2_System /\ ret.op = "constraints" /\ ret.free = <<0, 1, 1>>) =>
           /\ ret.err = "none"
           /\ Len(ret.val) = 2
           /\ ret.val[1][1] = 1 * ret.val[1][2]
           /\ ret.val[2][1] = 0
    /\ (Constructed /\ Cn = 1 /\ col.instance_constraints.is_none
        /\ ret.op = "constraints") =>
           /\ ret.err = "none"
           /\ Len(ret.val) = CN - 1

\* C3: after construction num_free = n * N + q * N + r, q and r being the
\* numbers of trajectories and parameters classified as unknown, which are
\* the symbols of the equations that are no key of the known map.
C3_NumFree ==
    Constructed =>
        /\ col.num_free = Cn * CN + Cq * CN + Cr
        /\ Cq = Cardinality(col.eom.trajs \ DOMAIN col.known_trajectory_map)
        /\ Cr = Cardinality(col.eom.pars \ DOMAIN col.known_parameter_map)
        /\ Cq = col.num_unknown_input_trajectories
        /\ Cr = col.num_unknown_parameters
        /\ prob.cls = "Problem" => prob.num_free = col.num_free

\* C3's case: a collocator with two states over three nodes, an unknown
\* trajectory beside a known one and an unknown parameter beside a known one.
C3_Witness ==
    /\ Constructed
    /\ Cn = 2 /\ CN = 3 /\ Cq = 1 /\ Cr = 1
    /\ Len(col.known_input_trajectories) = 1
    /\ Len(col.known_parameters) = 1
    /\ col.num_free = 10

\* The slots of the free vector, as the layout names them (0-based).
StateSlot(j, i) == j * CN + i
TrajSlot(j, i) == Cn * CN + j * CN + i
ParSlot(j) == (Cn + Cq) * CN + j
AllSlots ==
    {<<"state", j, i>> : j \in 0..(Cn - 1), i \in 0..(CN - 1)}
    \cup {<<"traj", j, i>> : j \in 0..(Cq - 1), i \in 0..(CN - 1)}
    \cup {<<"par", j, 0>> : j \in 0..(Cr - 1)}
SlotOf(s) ==
    IF s[1] = "state" THEN StateSlot(s[2], s[3])
    ELSE IF s[1] = "traj" THEN TrajSlot(s[2], s[3]) ELSE ParSlot(s[2])

\* The node a current (cur) or adjacent column of constraint node i refers to.
StencilNode(cur, i) ==
    IF (col.integration_method = "backward euler") = cur THEN i + 1 ELSE i

\* The offsets jacobian_indices uses at constraint node i agree with the
\* layout: the columns of the states, of the unknown trajectories and of the
\* unknown parameters.
JacobianUsesLayout(i) ==
    LET cols == jac_col_idxs_at(col, i)
        be == col.integration_method = "backward euler"
        pbase == IF be THEN 2 * Cn + Cq ELSE 2 * Cn + 2 * Cq
    IN  /\ \A j \in 0..(Cn - 1) :
               /\ cols[j + 1] = StateSlot(j, StencilNode(TRUE, i))
               /\ cols[Cn + j + 1] = StateSlot(j, StencilNode(FALSE, i))
        /\ \A j \in 0..(Cq - 1) :
               /\ cols[2 * Cn + j + 1] = TrajSlot(j, StencilNode(TRUE, i))
               /\ ~be => cols[2 * Cn + Cq + j + 1] = TrajSlot(j, StencilNode(FALSE, i))
        /\ \A j \in 0..(Cr - 1) : cols[pbase + j + 1] = ParSlot(j)

\* C4: the offset of (state j, node i) is j * N + i, within [0, n * N); that
\* of (unknown trajectory j, node i) is n * N + j * N + i, within
\* [n * N, (n + q) * N); that of unknown parameter j is (n + q) * N + j, within
\* [(n + q) * N, num_free); no two slots share an offset; and
\* jacobian_indices, _generate_bound_arrays and _eval_base_obj_grad use
\* these offsets.
C4_LayoutBijection ==
    Constructed =>
        /\ \A s, t \in AllSlots : SlotOf(s) = SlotOf(t) => s = t
        /\ \A j \in 0..(Cn - 1), i \in 0..(CN - 1) :
               /\ StateSlot(j, i) \in 0..(Cn * CN - 1)
               /\ bound_state_start(CN, j) + i = StateSlot(j, i)
               /\ obj_grad_state_start(CN, j) + i = StateSlot(j, i)
        /\ \A j \in 0..(Cq - 1), i \in 0..(CN - 1) :
               /\ TrajSlot(j, i) \in (Cn * CN)..((Cn + Cq) * CN - 1)
               /\ bound_traj_start(CN, Cn, j) + i = TrajSlot(j, i)
               /\ obj_grad_specified_start(Cn, CN, j) + i = TrajSlot(j, i)
        /\ \A j \in 0..(Cr - 1) :
               /\ ParSlot(j) \in ((Cn + Cq) * CN)..(col.num_free - 1)
               /\ bound_par_idx(CN, Cn, Cq, j) = ParSlot(j)
               /\ obj_grad_constant_idx(Cn, Cq, CN, j) = ParSlot(j)
        /\ \A i \in 0..(CN - 2) : JacobianUsesLayout(i)

\* C4's case: a collocator with all three blocks, two rows in each of the
\* first two.
C4_Witness ==
    /\ Constructed
    /\ Cn = 2 /\ Cq = 2 /\ Cr = 1 /\ CN = 3
    /\ col.integration_method = "midpoint"

\* The value of a known or unknown trajectory (parameter) of the equations
\* at a node, read from the known map or from the free vector by the layout.
TrajValueAt(free, u, node) ==
    IF u \in DOMAIN col.known_trajectory_map
    THEN col.known_trajectory_map[u][node + 1]
    ELSE free[TrajSlot(IndexOf(col.unknown_input_trajectories, u) - 1, node) + 1]
ParValue(free, p) ==
    IF p \in DOMAIN col.known_parameter_map
    THEN col.known_parameter_map[p]
    ELSE free[ParSlot(IndexOf(col.unknown_parameters, p) - 1) + 1]

\* The residual of state equation j (0-based) at node pair i (0-based), as a
\* fraction: the discretization of 0 = x_j' - sum(trajectories) -
\* sum(parameters) written out on the free vector.
ExpectedResidual(free, j, i) ==
    LET h == col.node_time_interval
        x(node) == free[StateSlot(j, node) + 1]
        us == sort_sympy(col.eom.trajs)
        ps == sort_sympy(col.eom.pars)
        sum_p == SumSeq([k \in 1..Len(ps) |-> ParValue(free, ps[k])])
        sum_u(node) == SumSeq([k \in 1..Len(us) |-> TrajValueAt(free, us[k], node)])
    IN  IF col.integration_method = "backward euler"
        THEN <<(x(i + 1) - x(i)) - h * sum_u(i + 1) - h * sum_p, h>>
        ELSE <<2 * (x(i + 1) - x(i)) - h * (sum_u(i) + sum_u(i + 1)) - 2 * h * sum_p,
               2 * h>>

SameFraction(a, b) == a[1] * b[2] = b[1] * a[2]

\* The value of instance constraint c (0-based): the sum of the entries of
\* the free vector its functions resolve to.
ExpectedInstanceValue(free, c) ==
    LET atoms == AtomList(col.instance_constraints.cons[c + 1])
    IN  SumSeq([k \in 1..Len(atoms) |->
                   free[col.instance_constraints_free_index_map[atoms[k]] + 1]])

\* C5: the vector the constraint function returns has length
\* num_constraints = n * (N - 1) + k; position j * (N - 1) + i holds the
\* residual of state equation j at node pair i, and the k values of the
\* instance constraints are its last k entries, in declaration order.
C5_ConstraintVectorLayout ==
    (Constructed /\ ret.op = "constraints" /\ ret.err = "none") =>
        /\ Len(ret.val) = col.num_constraints
        /\ col.num_constraints = Cn * (CN - 1) + Ck
        /\ \A j \in 0..(Cn - 1), i \in 0..(CN - 2) :
               SameFraction(ret.val[j * (CN - 1) + i + 1], ExpectedResidual(ret.free, j, i))
        /\ \A c \in 0..(Ck - 1) :
               SameFraction(ret.val[Len(ret.val) - Ck + c + 1],
                            <<ExpectedInstanceValue(ret.free, c), 1>>)

\* C5's case: two states, three nodes, free and known symbols and two
\* instance constraints, evaluated on a vector whose entries differ.
C5_Witness ==
    /\ Constructed
    /\ ret.op = "constraints" /\ ret.err = "none"
    /\ Cn = 2 /\ CN = 3 /\ Ck = 2 /\ Cq = 1 /\ Cr = 1
    /\ Len(col.known_input_trajectories) = 1
    /\ ret.free = [i \in 1..col.num_free |-> (i * i) % 5]
    /\ Len(ret.val) = 6

\* C6: in the pattern of jacobian_indices, under backward Euler every
\* current column (state or unknown trajectory) refers to a node in 1..N-1
\* and every adjacent state column to a node in 0..N-2; under midpoint every
\* current column refers to a node in 0..N-2 and every adjacent or next
\* column to a node in 1..N-1.
C6_StencilBoundary ==
    (Constructed /\ ret.op = "jacobian_indices" /\ ret.err = "none") =>
        LET be == col.integration_method = "backward euler"
            W == IF be THEN 2 * Cn + Cq + Cr ELSE 2 * Cn + 2 * Cq + Cr
            currentNodes == IF be THEN 1..(CN - 1) ELSE 0..(CN - 2)
            adjacentNodes == IF be THEN 0..(CN - 2) ELSE 1..(CN - 1)
        IN  /\ Len(ret.cols) >= (CN - 1) * Cn * W
            /\ \A x \in 0..((CN - 1) * Cn * W - 1) :
                   LET c == x % W
                       column == ret.cols[x + 1]
                   IN  /\ c < Cn => (column - c * CN) \in currentNodes
                       /\ (Cn <= c /\ c < 2 * Cn) =>
                              (column - (c - Cn) * CN) \in adjacentNodes
                       /\ (2 * Cn <= c /\ c < 2 * Cn + Cq) =>
                              (column - Cn * CN - (c - 2 * Cn) * CN) \in currentNodes
                       /\ (~be /\ 2 * Cn + Cq <= c /\ c < 2 * Cn + 2 * Cq) =>
                              (column - Cn * CN - (c - 2 * Cn - Cq) * CN) \in adjacentNodes

\* C6's case: the pattern of a backward Euler collocator with states and an
\* unknown trajectory over three nodes.
C6_Witness ==
    /\ Constructed
    /\ ret.op = "jacobian_indices" /\ ret.err = "none"
    /\ col.integration_method = "backward euler"
    /\ Cn = 2 /\ Cq = 1 /\ CN = 3
    /\ Len(ret.cols) = 2 * 2 * (4 + 1 + Cr)

\* C7: every state-at-time function of an instance constraint resolves to
\* node + state_index * N, the node being the node of 0..N-1 whose time
\* node * h is closest to the function's time, the lowest such node on a tie:
\* with N = 5 and h = 1, x(0.0) resolves to node 0, x(4.0) to node 4 and
\* x(2.1) to node 2.
C7_ClosestNode ==
    Constructed =>
        \A f \in col.instance_constraint_function_atoms :
            LET node == col.instance_constraints_free_index_map[f] - (f.state - 1) * CN
                dist(k) == Abs(10 * col.node_time_interval * k - f.time)
            IN  /\ node \in 0..(CN - 1)
                /\ \A k \in 0..(CN - 1) : dist(node) <= dist(k)
                /\ \A k \in 0..(CN - 1) : dist(k) = dist(node) => node <= k
                /\ (CN = 5 /\ col.node_time_interval = 1) =>
                       /\ f.time = 0 => node = 0
                       /\ f.time = 40 => node = 4
                       /\ f.time = 21 => node = 2

\* C7's case: x2(2.1) on the grid of N = 5, h = 1 resolves to 2 + 1 * 5.
C7_Witness ==
    /\ Constructed
    /\ CN = 5 /\ col.node_time_interval = 1
    /\ Atom(2, 21) \in col.instance_constraint_function_atoms
    /\ col.instance_constraints_free_index_map[Atom(2, 21)] = 7

\* The symbol that owns slot s (0-based) of the free vector.
SlotOwner(s) ==
    IF s < Cn * CN THEN Var("state", (s \div CN) + 1)
    ELSE IF s < (Cn + Cq) * CN
         THEN Var("traj", col.unknown_input_trajectories[((s - Cn * CN) \div CN) + 1])
         ELSE Var("par", col.unknown_parameters[s - (Cn + Cq) * CN + 1])

\* C8: a bound (lo, hi) declared on a state, an unknown trajectory or an
\* unknown parameter sets lower_bound and upper_bound to lo and hi on
\* exactly the slots of that symbol, and every other slot keeps the
\* unrestricted default.
C8_BoundsAssignment ==
    (Constructed /\ prob.cls = "Problem") =>
        /\ Len(prob.lower_bound) = col.num_free
        /\ Len(prob.upper_bound) = col.num_free
        /\ \A s \in 0..(col.num_free - 1) :
               IF ~prob.bounds.is_none /\ SlotOwner(s) \in DOMAIN prob.bounds.map
               THEN /\ prob.lower_bound[s + 1] = Finite(prob.bounds.map[SlotOwner(s)][1])
                    /\ prob.upper_bound[s + 1] = Finite(prob.bounds.map[SlotOwner(s)][2])
               ELSE /\ prob.lower_bound[s + 1] = Unbounded(-1)
                    /\ prob.upper_bound[s + 1] = Unbounded(1)

\* C8's case: the bound (-1, 1) on the first state of a 2-state problem with
\* an unknown trajectory and an unknown parameter: exactly N slots change.
C8_Witness ==
    /\ Constructed /\ prob.cls = "Problem"
    /\ Cn = 2 /\ CN = 3 /\ Cq >= 1 /\ Cr >= 1
    /\ ~prob.bounds.is_none
    /\ DOMAIN prob.bounds.map = {Var("state", 1)}
    /\ prob.bounds.map[Var("state", 1)] = <<-1, 1>>
    /\ Cardinality({s \in 1..col.num_free : prob.lower_bound[s] = Finite(-1)}) = 3
    /\ Cardinality({s \in 1..col.num_free : prob.lower_bound[s] = Unbounded(-1)})
           = col.num_free - 3

\* The constructor was called with the arguments pin and has returned or
\* raised.
ConstructorCalled == pin # NoCall /\ col # NoObject

\* Some array of the known trajectory mapping is not N long.
WrongTrajectoryLength ==
    \E k \in DOMAIN pin.known_trajectory_lens : pin.known_trajectory_lens[k] # pin.N

\* C11: when an array of the known trajectory mapping (a key that is in no
\* equation included) has a length other than N, the construction fails
\* with an error raised before the trajectories are classified, before the
\* discretization is derived and before an evaluator is made; when every
\* array is N long the check of the lengths raises nothing.
C11_TrajectoryLengthChecked ==
    ConstructorCalled =>
        IF WrongTrajectoryLength
        THEN /\ col.cls = "failed"
             /\ col.error = "ValueError"
             /\ col.raised_in = "_check_known_trajectories"
             /\ DOMAIN col \cap {"input_trajectories", "unknown_input_trajectories",
                                 "num_free", "integration_method", "discrete_eom",
                                 "instance_constraints_free_index_map"} = {}
        ELSE col.cls = "failed" => col.raised_in # "_check_known_trajectories"

\* C11's case: the array of a key that is in no equation is one entry too
\* long, the array of the key that is in the equations is N long.
C11_Witness ==
    /\ ConstructorCalled
    /\ pin.eom.trajs = {1}
    /\ pin.known_trajectory_keys = <<1, 2>>
    /\ pin.known_trajectory_lens[1] = pin.N
    /\ pin.known_trajectory_lens[2] = pin.N + 1
    /\ col.cls = "failed"
    /\ "known_parameters" \in DOMAIN col

\* C12: a method name other than the two valid ones makes the construction
\* fail with an error and leaves no discrete symbols and no discrete
\* equations of motion; with a valid name (and arrays of the right length)
\* the discretization of that method is derived.
C12_InvalidMethodRejected ==
    ConstructorCalled =>
        IF pin.integration_method \notin ValidMethods
        THEN /\ col.cls = "failed"
             /\ col.error = "ValueError"
             /\ ~WrongTrajectoryLength => col.raised_in = "integration_method"
             /\ DOMAIN col \cap {"integration_method", "discrete_eom"} = {}
        ELSE ~WrongTrajectoryLength =>
                 /\ "discrete_eom" \in DOMAIN col
                 /\ col.discrete_eom = pin.integration_method
                 /\ col.integration_method = pin.integration_method

\* C12's case: an invalid name with arrays of the right length and valid
\* instance constraints: the setter is what raises.
C12_Witness ==
    /\ ConstructorCalled
    /\ pin.integration_method = InvalidMethod
    /\ ~WrongTrajectoryLength
    /\ pin.N >= 2
    /\ ~pin.instance_constraints.is_none
    /\ col.cls = "failed"
    /\ col.raised_in = "integration_method"
    /\ "num_free" \in DOMAIN col

\* C15: a constructor called with fewer than two collocation nodes raises,
\* so that every constructed collocator has N >= 2, a positive number of
\* constraints from the dynamics and a constraint node.
C15_AtLeastTwoNodes ==
    /\ (ConstructorCalled /\ pin.N < 2) => col.cls = "failed"
    /\ Constructed =>
           /\ CN >= 2
           /\ Cn * (CN - 1) > 0

\* An instance constraint of the call holds a function that is no state, or
\* a parameter that is not known.
UnsupportedInstanceSymbol ==
    /\ ~pin.instance_constraints.is_none
    /\ \E i \in 1..Len(pin.instance_constraints.cons) :
           \/ \E f \in pin.instance_constraints.cons[i] : f.state \notin 1..pin.n
           \/ ~(pin.instance_constraints.con_pars[i] \subseteq Range(pin.known_parameter_keys))

\* C16: an instance constraint that holds a function that is no state, or
\* an unknown parameter, makes the construction fail; no collocator that was
\* constructed fails on it when its instance constraints are evaluated.
C16_UnsupportedInstanceSymbolRejected ==
    /\ (ConstructorCalled /\ UnsupportedInstanceSymbol) => col.cls = "failed"
    /\ (Constructed /\ ret.op = "eval_instance_constraints") => ret.err = "none"

\* C13: once a collocator is constructed, its integration method, its
\* discrete equations of motion and the pattern of jacobian_indices stay
\* those of the method given to the constructor, whatever is assigned to
\* integration_method, and every generated evaluator is of the stencil of
\* the pattern.
C13_StencilImmutable ==
    (Constructed /\ pin # NoCall) =>
        /\ col.integration_method = pin.integration_method
        /\ col.discrete_eom = pin.integration_method
        /\ jacobian_indices(col) = jacobian_indices(Collocator(pin))
        /\ "_multi_arg_con_func" \in DOMAIN col =>
               col._multi_arg_con_func.integration_method = col.integration_method
        /\ "_multi_arg_con_jac_func" \in DOMAIN col =>
               col._multi_arg_con_jac_func.integration_method = col.integration_method
        /\ ret.op = "jacobian" =>
               (ret.err = "none" /\ Len(ret.val) = Len(jacobian_indices(col).rows))

\* C14: the constraint function and the Jacobian-value function raise
\* exactly when the state array has fewer than two node columns or a shape
\* other than (n, N).  The wrapped functions hand over the array parse_free
\* cuts from the free vector, which has n rows of N entries, so a call raises
\* exactly when N < 2, whatever n is.
C14_FailsExactlyOnFewNodeColumns ==
    (Constructed /\ ret.op \in {"constraints", "jacobian"}) =>
        LET state_values == parse_free(ret.free, Cn, Cq, CN).states
            few_columns == \E j \in 1..Len(state_values) : Len(state_values[j]) < 2
            other_shape == \/ Len(state_values) # Cn
                           \/ \E j \in 1..Len(state_values) : Len(state_values[j]) # CN
        IN  (ret.err # "none") <=> (few_columns \/ other_shape)

\* C17: a flat vector of length n * N + q * N + r, split by contiguous
\* slicing into the state block, the block of the free trajectories and the
\* free parameters and written back at the offsets i * N, n * N + i * N and
\* (n + q) * N + i, is the vector that was split; the blocks have n rows of
\* N, q rows of N and r entries.
C17_ParseReassembleRoundTrip ==
    /\ pout # NoCall =>
           /\ Len(pout.states) = pin.n
           /\ \A j \in 1..pin.n : Len(pout.states[j]) = pin.N
           /\ Len(pout.specifieds) = pin.q
           /\ \A j \in 1..pin.q : Len(pout.specifieds[j]) = pin.N
           /\ Len(pout.constants) = pin.r
    /\ ret # NoCall => ret.val = pin.free

\* C17's case: two states, one free trajectory (the array parse_free returns
\* flat), three nodes and two parameters, on the vector 1, 2, ..., 11.
C17_Witness ==
    /\ ret # NoCall
    /\ pin.n = 2 /\ pin.q = 1 /\ pin.N = 3 /\ pin.r = 2
    /\ pin.free = [i \in 1..11 |-> i]
    /\ pout.specifieds = <<<<7, 8, 9>>>>
    /\ ret.val[11] = 11

\* The collocator of the problem as the constructor made it, and what each
\* evaluator returns for the free vector free on that collocator alone.
AsConstructed == Collocator(pin)
PureObjective(free) == SumSeq([i \in 1..Len(free) |-> free[i] * free[i]])
PureGradient(free) == [i \in 1..Len(free) |-> 2 * free[i]]
PureConstraints(typ, free) == wrapped_constraints(AsConstructed, AsConstructed, typ, free)

\* C18: whatever calls of objective, gradient, constraints, jacobian and
\* jacobianstructure came before, a call returns the value that its free
\* vector and the state fixed by the constructor determine, and the calls
\* leave the collocator and the stored pattern as the constructor made them.
C18_EvaluatorPurity ==
    prob.cls = "Problem" =>
        /\ ret.op = "objective" => ret.val = PureObjective(ret.free)
        /\ ret.op = "gradient" => ret.val = PureGradient(ret.free)
        /\ ret.op = "constraints" =>
               /\ ret.err = PureConstraints("con", ret.free).err
               /\ ret.val = PureConstraints("con", ret.free).val
        /\ ret.op = "jacobian" =>
               /\ ret.err = PureConstraints("jac", ret.free).err
               /\ ret.val = PureConstraints("jac", ret.free).val
        /\ ret.op = "jacobianstructure" =>
               /\ ret.rows = Problem(pin, [is_none |-> TRUE, map |-> <<>>]).con_jac_rows
               /\ ret.cols = Problem(pin, [is_none |-> TRUE, map |-> <<>>]).con_jac_cols
        /\ [k \in DOMAIN AsConstructed |-> col[k]] = AsConstructed

\* C18's case: a call of constraints that follows a call of gradient, whose
\* array holds the gradient of another free vector than the one of the call.
C18_Witness ==
    /\ prob.cls = "Problem"
    /\ ret.op = "constraints" /\ ret.err = "none"
    /\ ret.free = [i \in 1..prob.num_free |-> Min(i - 1, 1)]
    /\ prob.num_free >= 7
    /\ prob.obj.obj_grad_result = PureGradient([i \in 1..prob.num_free |-> (i * i) % 5])
    /\ Len(ret.val) = prob.num_constraints

\* The pattern of a collocator that has nothing but the counts of the
\* problem: n states, q free trajectories, r free parameters, N nodes, the
\* stencil and the instance constraints on the problem's time grid.
PatternOfCounts ==
    jacobian_indices(
        Collocator([n |-> Cn, N |-> CN, h |-> col.node_time_interval,
                    eom |-> [pars |-> 1..Cr, trajs |-> 1..Cq],
                    known_parameter_keys |-> <<>>, known_trajectory_keys |-> <<>>,
                    instance_constraints |-> col.instance_constraints,
                    integration_method |-> col.integration_method]))

\* C19: every call of jacobian_indices() and of jacobianstructure() returns
\* the row and column sequences that N, the stencil and the counts of the
\* variables determine, whatever free vectors the evaluators were called
\* with before, and the sequences the problem stores stay those.
C19_PatternStatic ==
    prob.cls = "Problem" =>
        /\ PatternOfCounts.err = "none"
        /\ prob.con_jac_rows = PatternOfCounts.rows
        /\ prob.con_jac_cols = PatternOfCounts.cols
        /\ ret.op \in {"jacobianstructure", "jacobian_indices"} =>
               /\ ret.err = "none"
               /\ ret.rows = PatternOfCounts.rows
               /\ ret.cols = PatternOfCounts.cols

\* C19's case: jacobianstructure() called after a gradient call has written
\* its array, on a midpoint problem with a free and a known parameter.
C19_Witness ==
    /\ prob.cls = "Problem"
    /\ ret.op = "jacobianstructure"
    /\ prob.obj.obj_grad_result # [i \in 1..prob.num_free |-> 0]
    /\ col.integration_method = "midpoint"
    /\ Cr = 1 /\ Len(col.known_parameters) = 1
    /\ Len(ret.rows) > 0
    /\ ret.rows # ret.cols

\* The entries one constraint node has by the claim's count, q and r being
\* the trajectories and parameters of the equations that are in no known map.
EntriesPerNode ==
    LET q == Cardinality(col.eom.trajs \ DOMAIN col.known_trajectory_map)
        r == Cardinality(col.eom.pars \ DOMAIN col.known_parameter_map)
    IN  IF col.integration_method = "backward euler"
        THEN Cn * (2 * Cn + q + r)
        ELSE Cn * (2 * Cn + 2 * q + r)

\* The entries of the instance constraints: one per function of a constraint.
InstanceEntries ==
    IF col.instance_constraints.is_none THEN 0
    ELSE SumSeq([i \in 1..Len(col.instance_constraints.cons) |->
                    Cardinality(col.instance_constraints.cons[i])])

\* C20: the pattern jacobian_indices returns has, for each of the N - 1
\* constraint nodes, n * (2n + q + r) entries under backward Euler and
\* n * (2n + 2q + r) under midpoint, q and r counting the unknown symbols
\* only; its length is N - 1 times that plus the entries of the instance
\* constraints, and the Jacobian-value function returns as many values.
\* Without instance constraints the pattern is always returned.
C20_NonzeroCount ==
    Constructed =>
        /\ (ret.op = "jacobian_indices" /\ col.instance_constraints.is_none) =>
               ret.err = "none"
        /\ (ret.op = "jacobian_indices" /\ ret.err = "none") =>
               /\ Len(ret.rows) = (CN - 1) * EntriesPerNode + InstanceEntries
               /\ Len(ret.cols) = Len(ret.rows)
               /\ \A i \in 0..(CN - 2) :
                      Cardinality({x \in 1..((CN - 1) * EntriesPerNode) :
                                      ret.rows[x] % (CN - 1) = i}) = EntriesPerNode
        /\ (ret.op = "jacobian" /\ ret.err = "none") =>
               Len(ret.val) = (CN - 1) * EntriesPerNode + InstanceEntries

\* C20's case: two states over three nodes under backward Euler, a free and
\* a known trajectory, a free and a known parameter and instance constraints
\* of three functions: 2 * 12 + 3 entries.
C20_Witness ==
    /\ Constructed
    /\ ret.op = "jacobian_indices" /\ ret.err = "none"
    /\ col.integration_method = "backward euler"
    /\ Cn = 2 /\ CN = 3 /\ Cq = 1 /\ Cr = 1
    /\ Len(col.known_input_trajectories) = 1
    /\ Len(col.known_parameters) = 1
    /\ InstanceEntries = 3
    /\ Len(ret.rows) = 27

\* The symbol at place c (0-based) of the list the partial derivatives are
\* taken with respect to, as C21 names it: the current states, the adjacent
\* states, the current unknown trajectories, under midpoint the next unknown
\* trajectories, the unknown parameters.
WrtLength == IF col.integration_method = "backward euler"
             THEN 2 * Cn + Cq + Cr ELSE 2 * Cn + 2 * Cq + Cr
WrtSymbol(c) ==
    LET be == col.integration_method = "backward euler"
    IN  IF c < Cn THEN DSym("xi", c + 1)
        ELSE IF c < 2 * Cn THEN DSym(IF be THEN "xp" ELSE "xn", c - Cn + 1)
        ELSE IF c < 2 * Cn + Cq
             THEN DSym("si", col.unknown_input_trajectories[c - 2 * Cn + 1])
        ELSE IF ~be /\ c < 2 * Cn + 2 * Cq
             THEN DSym("sn", col.unknown_input_trajectories[c - 2 * Cn - Cq + 1])
        ELSE DSym("c", col.unknown_parameters[c - WrtLength + Cr + 1])

\* The slot of the free vector of the symbol at place c at constraint node i.
WrtSlot(c, i) ==
    LET be == col.integration_method = "backward euler"
    IN  IF c < Cn THEN StateSlot(c, StencilNode(TRUE, i))
        ELSE IF c < 2 * Cn THEN StateSlot(c - Cn, StencilNode(FALSE, i))
        ELSE IF c < 2 * Cn + Cq THEN TrajSlot(c - 2 * Cn, StencilNode(TRUE, i))
        ELSE IF ~be /\ c < 2 * Cn + 2 * Cq
             THEN TrajSlot(c - 2 * Cn - Cq, StencilNode(FALSE, i))
        ELSE ParSlot(c - WrtLength + Cr)

\* C21: with W the length of the wrt list and P = n * W, the entry of
\* jacobian_indices at position i * P + j * W + c has row j * (N - 1) + i and
\* the column of the slot of the c-th wrt symbol at the node of the stencil,
\* and every array of values the Jacobian function returns holds at that
\* position the partial derivative of equation j at node pair i with respect
\* to that symbol.
C21_PatternValueOrder ==
    LET W == WrtLength
        P == Cn * W
        D == (CN - 1) * P
        node(x) == (x - 1) \div P
        eq(x) == ((x - 1) % P) \div W
        place(x) == (x - 1) % W
        rows == [x \in 1..D |-> eq(x) * (CN - 1) + node(x)]
        cols == [x \in 1..D |-> WrtSlot(place(x), node(x))]
        values == [x \in 1..D |->
                      [node |-> node(x), eq |-> eq(x) + 1, wrt |-> WrtSymbol(place(x))]]
        pattern == jacobian_indices(col)
    IN  Constructed =>
            /\ (ret.op = "jacobian_indices" /\ ret.err = "none") =>
                   /\ SubSeq(ret.rows, 1, D) = rows
                   /\ SubSeq(ret.cols, 1, D) = cols
            /\ (ret.op = "jacobian" /\ ret.err = "none") =>
                   /\ SubSeq(ret.val, 1, D) = values
                   /\ pattern.err = "none" =>
                          /\ SubSeq(pattern.rows, 1, D) = rows
                          /\ SubSeq(pattern.cols, 1, D) = cols

\* C21's case: the values of a midpoint collocator of two states over three
\* nodes with a free trajectory beside a known one and a free parameter
\* beside a known one: W = 7, P = 14, 28 values of the dynamics.
C21_Witness ==
    /\ Constructed
    /\ ret.op = "jacobian" /\ ret.err = "none"
    /\ col.integration_method = "midpoint"
    /\ Cn = 2 /\ CN = 3 /\ Cq = 1 /\ Cr = 1
    /\ Len(col.known_input_trajectories) = 1
    /\ Len(col.known_parameters) = 1
    /\ col.instance_constraints.is_none
    /\ Len(ret.val) = 28
    /\ ret.val[1 * 14 + 1 * 7 + 5 + 1] = [node |-> 1, eq |-> 2, wrt |-> DSym("sn", 2)]

\* The rows and the columns C22 gives the entries of the instance
\* constraints: for constraint c (0-based) the row n * (N - 1) + c once per
\* function it references, and the indices those functions resolve to.
InstanceBlockRows ==
    Concat([c \in 1..Ck |->
               [k \in 1..Cardinality(col.instance_constraints.cons[c]) |->
                   Cn * (CN - 1) + (c - 1)]])
InstanceBlockCols ==
    Concat([c \in 1..Ck |->
               [k \in 1..Cardinality(col.instance_constraints.cons[c]) |->
                   col.instance_constraints_free_index_map[
                       AtomList(col.instance_constraints.cons[c])[k]]]])

\* C22: for every number of states n, the entries of instance constraint c
\* in the arrays of jacobian_indices have row n * (N - 1) + c, once per
\* function the constraint references, and the resolved indices of those
\* functions as columns; they are the last entries of the arrays, and each
\* row lies in [n * (N - 1), num_constraints).
C22_InstanceConstraintBlock ==
    (Constructed /\ ~col.instance_constraints.is_none
     /\ ret.op = "jacobian_indices" /\ ret.err = "none") =>
        LET k == InstanceEntries
            tail(a) == SubSeq(a, Len(a) - k + 1, Len(a))
        IN  /\ Len(ret.rows) >= k
            /\ tail(ret.rows) = InstanceBlockRows
            /\ tail(ret.cols) = InstanceBlockCols
            /\ \A x \in 1..k :
                   /\ tail(ret.rows)[x] >= Cn * (CN - 1)
                   /\ tail(ret.rows)[x] < col.num_constraints

\* The number of unknown symbols among the first i symbols of the merge.
UnknownsUpTo(i) == Cardinality({x \in 1..i : pin.syms[x] \notin DOMAIN pin.fixed})

\* C23: _merge_fixed_free returns one entry per symbol of syms, in the order
\* of syms: the mapped value for a known symbol, the k-th free value for the
\* k-th unknown symbol, and for typ "traj" with a 1-D free array that whole
\* array for the unknown symbol.
C23_MergeFixedFree ==
    ret.op = "_merge_fixed_free" =>
        /\ Len(ret.val) = Len(pin.syms)
        /\ \A i \in 1..Len(pin.syms) :
               IF pin.syms[i] \in DOMAIN pin.fixed
               THEN ret.val[i] = pin.fixed[pin.syms[i]]
               ELSE IF pin.typ = "traj" /\ pin.free.ndim = 1
                    THEN ret.val[i] = pin.free.data
                    ELSE ret.val[i] = pin.free.data[UnknownsUpTo(i)]

\* C23's case: a known trajectory before the single unknown one, whose
\* values over three nodes are one flat array.
C23_Witness ==
    /\ ret.op = "_merge_fixed_free"
    /\ pin.typ = "traj" /\ pin.N = 3
    /\ pin.free.ndim = 1
    /\ pin.syms = <<2, 1>>
    /\ ret.val = <<<<21, 22, 23>>, <<1, 2, 3>>>>

\* C24: for N >= 2 and both stencils the (row, column) pairs jacobian_indices
\* generates for the dynamics constraints, the first (N - 1) * n * W entries
\* of its arrays, are pairwise distinct, every such row lies in
\* [0, n * (N - 1)) and every such column in [0, num_free).
C24_NoDuplicateTriplets ==
    (Constructed /\ CN >= 2 /\ ret.op = "jacobian_indices" /\ ret.err = "none") =>
        LET D == (CN - 1) * Cn * WrtLength
        IN  /\ Len(ret.rows) >= D
            /\ Len(ret.cols) >= D
            /\ Cardinality({<<ret.rows[x], ret.cols[x]>> : x \in 1..D}) = D
            /\ \A x \in 1..D :
                   /\ ret.rows[x] \in 0..(Cn * (CN - 1) - 1)
                   /\ ret.cols[x] \in 0..(col.num_free - 1)

\* C24's case: the pattern of a backward Euler collocator of two states over
\* three nodes with two free trajectories and a free parameter, and instance
\* constraints after the dynamics: 2 * 2 * 7 entries of the dynamics.
C24_Witness ==
    /\ Constructed
    /\ ret.op = "jacobian_indices" /\ ret.err = "none"
    /\ col.integration_method = "backward euler"
    /\ Cn = 2 /\ CN = 3 /\ Cq = 2 /\ Cr = 1
    /\ InstanceEntries = 3
    /\ Len(ret.rows) = 28 + 3

\* The arrays jacobian_indices returns for the collocator when its
\* instance_constraints is None.
PatternWithoutInstanceConstraints ==
    jacobian_indices([col EXCEPT !.instance_constraints = [is_none |-> TRUE, cons |-> <<>>]])

\* C25: when instance_constraints is given and contributes no entry (an empty
\* collection, or constraints that reference no function), jacobian_indices
\* returns, without an error, the row and column arrays it returns when
\* instance_constraints is None.
C25_EmptyInstanceConstraints ==
    (Constructed /\ ~col.instance_constraints.is_none /\ InstanceEntries = 0
     /\ ret.op = "jacobian_indices") =>
        /\ ret.err = "none"
        /\ PatternWithoutInstanceConstraints.err = "none"
        /\ ret.rows = PatternWithoutInstanceConstraints.rows
        /\ ret.cols = PatternWithoutInstanceConstraints.cols

\* C26: the gradient vector a caller was given for a free vector a still
\* holds the gradient at a after later calls of gradient with other free
\* vectors, and every call writes all num_free slots of its result.
C26_GradientResultKept ==
    prob.cls = "Problem" =>
        /\ pout.op = "gradient" => prob.obj[pout.array] = PureGradient(pout.free)
        /\ ret.op = "gradient" =>
               /\ Len(ret.val) = prob.num_free
               /\ ret.val = PureGradient(ret.free)

\* C27: assigning an invalid name to integration_method of a constructed
\* collocator raises an error and leaves the collocator, its stored method,
\* discrete symbols and discrete equations of motion among the rest, as it
\* was; a valid name raises nothing; and after any sequence of assignments
\* the stored method is one of the two valid ones and the discrete equations
\* are those of the stored method.
C27_InvalidAssignmentRejected ==
    /\ [](Constructed =>
              /\ col.integration_method \in ValidMethods
              /\ col.discrete_eom = col.integration_method
              /\ ret.op = "set_integration_method" =>
                     /\ ret.method \notin ValidMethods <=> ret.err = "ValueError"
                     /\ ret.method \in ValidMethods <=> ret.err = "none"
                     /\ ret.err = "none" => col.integration_method = ret.method)
    /\ [][(ret'.op = "set_integration_method" /\ ret'.method \notin ValidMethods)
              => col' = col]_vars

\* C27's case: a collocator constructed with backward Euler and switched to
\* midpoint, with a generated Jacobian function, after an invalid assignment.
C27_Witness ==
    /\ Constructed
    /\ ret.op = "set_integration_method"
    /\ ret.method = InvalidMethod /\ ret.err = "ValueError"
    /\ pin.integration_method = "backward euler"
    /\ col.integration_method = "midpoint"
    /\ col.discrete_eom = "midpoint"
    /\ "_multi_arg_con_jac_func" \in DOMAIN col

====
